---- MODULE Spec2Model ----
(***************************************************************************)
(* Model of the a2 analysis engine of mvme (src/src/analysis/a2/a2.cc):    *)
(* data sources (Extractor, ListFilterExtractor), operator step functions, *)
(* the export sinks and the graph driver (a2_begin_event,                  *)
(* a2_process_module_data, a2_end_event, a2_timetick, a2_begin_run,        *)
(* a2_end_run).                                                            *)
(*                                                                         *)
(* Conventions                                                             *)
(*  - a double is an exact fixed-point number: the integer d * Den.  The   *)
(*    invalid parameter (a quiet NaN with payload) is the record Invalid.  *)
(*  - C arrays are sequences; C index i is sequence index i + 1.           *)
(*  - a raw data word has three bit fields: marker, address, data.         *)
(***************************************************************************)
EXTENDS Integers, Sequences, FiniteSets, TLC

VARIABLES
    dataSources,    \* A2::dataSources[ei][srcIdx]   (DataSource structs)
    operators,      \* A2::operators[ei][opIdx]      (Operator structs)
    operatorRanks,  \* A2::operatorRanks[ei][opIdx]
    conditionBits,  \* A2::conditionBits, the set of bit indexes that are set
    samplers,       \* the RateSampler objects the rate monitors point to
    lastCall,       \* the most recent driver call that changed a2, and its outcome
    matchCount,     \* per data source: completed filter matches since begin_event
    history,        \* per operator: the inputs seen by its steps, oldest first
    passCount,      \* the number of a2_end_event calls made so far
    worker          \* the stream worker: its members, queues and threads

vars == <<dataSources, operators, operatorRanks, conditionBits, samplers,
          lastCall, matchCount, history, passCount, worker>>

\* no stream worker: the a2 system is driven directly
NoWorker == [m_state |-> "none"]

----------------------------------------------------------------------------
(* Bounds of the model *)

\* fixed-point denominator of the doubles: RealDist01 yields k/Den, 0 <= k < Den
Den == 2
\* period of the modelled random number generator
RngPeriod == 2
\* number of VME event indexes in use (at most MaxVMEEvents)
NumEvents == 2
\* longest module data buffer handed to a2_process_module_data
MaxDataSize == 2
\* completed matches per data source and event after which no more data is fed
MaxMatches == 2
\* hit count of a data source address after which its event index gets no
\* further a2_begin_event
MaxHits == 2
\* a2_end_event passes per behaviour
MaxPasses == 3
\* bits of a2->conditionBits in use
NumConditionBits == 1
\* longest parameter vector handed to write_indexed_parameter_vector
MaxVecLen == 4
\* a2_timetick calls per behaviour
MaxTicks == 2
\* number of VME modules per event in use (at most MaxVMEModules)
NumModules == 2
\* words of memory behind a module buffer that the model gives a content
TailLen == 2

----------------------------------------------------------------------------
(* Parameters: doubles with the invalid encoding *)

Invalid == [valid |-> FALSE, v |-> 0]

Param(x) == [valid |-> TRUE, v |-> x]

is_param_valid(p) == p.valid

invalid_param == Invalid

\* push_param_vector(arena, size, value)
push_param_vector(size, value) == [i \in 1..size |-> value]

\* invalidate_all(ParamVec): every element becomes the invalid parameter
invalidate_all(vec) == [i \in 1..Len(vec) |-> invalid_param]

Pow2(n) == 2 ^ n

Min2(a, b) == IF a <= b THEN a ELSE b

----------------------------------------------------------------------------
(* Raw data words and the multi word bit filter *)

\* the words fed to the model: every word with the marker bit set, and one
\* word with the marker bit clear (its other bits are never extracted)
Words == {0} \cup 4..7

MarkerBit(w) == (w \div 4) % 2
AddressBits(w) == (w \div 2) % 2
DataBits(w) == w % 2

\* matches(filter.filters[i], dataWord, wordIndex): sub filter 0 accepts the
\* words whose marker bit is set, sub filter 1 those whose marker bit is clear
matches(i, dataWord) ==
    IF i = 0 THEN MarkerBit(dataWord) = 1 ELSE MarkerBit(dataWord) = 0

is_complete(filter) == filter.completionMask = 0..(filter.filterCount - 1)

\* process_data(&filter, dataWord, wordIndex): records the word in every sub
\* filter it matches; the caller tests is_complete()
process_data(filter, dataWord) ==
    LET hit == {i \in 0..(filter.filterCount - 1) : matches(i, dataWord)}
    IN [filter EXCEPT
            !.completionMask = @ \cup hit,
            !.results = [i \in 1..Len(@) |->
                            IF (i - 1) \in hit THEN dataWord ELSE @[i]]]

\* clear_completion(&filter): the match state is the completion mask and the
\* words recorded for the sub filters
clear_completion(filter) ==
    [filter EXCEPT !.completionMask = {}, !.results = [i \in 1..Len(@) |-> 0]]

\* get_extract_bits(&filter, CacheA / CacheD)
get_extract_bits_A(filter) == 1
get_extract_bits_D(filter) == 1

\* extract(&filter, MultiWordFilter::CacheA)
extract_A(filter) == AddressBits(filter.results[1])

\* extract(&filter, MultiWordFilter::CacheD): sub filter 0 holds the data bits
extract_D(filter) == DataBits(filter.results[1])

MultiWordFilter(filterCount) ==
    [filterCount |-> filterCount, completionMask |-> {},
     results |-> [i \in 1..filterCount |-> 0]]

----------------------------------------------------------------------------
(* The random number generator of a data source *)

\* RealDist01(ex->rng): the value drawn in state rng, as a multiple of 1/Den
RealDist01(rng) == (rng + 1) % Den

\* the generator state after one draw
rng_next(rng) == (rng + 1) % RngPeriod

----------------------------------------------------------------------------
(* Extractor (bit filter data source) *)

NoAddedRandom == "NoAddedRandom"
RepetitionContributesLowAddressBits == "RepetitionContributesLowAddressBits"

DataSource_Extractor == "Extractor"
DataSource_ListFilterExtractor == "ListFilterExtractor"

\* make_extractor
make_extractor(filter, requiredCompletions, rngSeed, options) ==
    [filter |-> filter,
     requiredCompletions |-> requiredCompletions,
     currentCompletions |-> 0,
     rng |-> rngSeed,
     options |-> options]

\* get_address_count(Extractor *)
get_address_count_ex(ex) == Pow2(get_extract_bits_A(ex.filter))

\* make_datasource_extractor
make_datasource_extractor(filterCount, requiredCompletions, rngSeed, moduleIndex, options) ==
    LET ex == make_extractor(MultiWordFilter(filterCount), requiredCompletions,
                             rngSeed, options)
        addrCount == get_address_count_ex(ex)
    IN [type |-> DataSource_Extractor,
        d |-> ex,
        moduleIndex |-> moduleIndex,
        output |-> push_param_vector(addrCount, invalid_param),
        hitCounts |-> push_param_vector(addrCount, 0)]

\* extractor_begin_event that leaves the completion counter alone
extractor_begin_event_keeps_counter(ds) ==
    [ds EXCEPT !.d.filter = clear_completion(@),
               !.output = invalidate_all(@)]

\* extractor_begin_event
extractor_begin_event(ds) ==
    [ds EXCEPT !.d.filter = clear_completion(@),
               !.d.currentCompletions = 0,
               !.output = invalidate_all(@)]

\* extractor_store without the test of the slot: every hit is stored
extractor_store_every_hit(ds, address, value) ==
    [ds EXCEPT !.output[address + 1] = Param(value),
               !.hitCounts[address + 1] = @ + 1]

\* the store of an extracted value in extractor_process_module_data
extractor_store(ds, address, value) ==
    IF ~is_param_valid(ds.output[address + 1])
    THEN LET jittered == IF NoAddedRandom \in ds.d.options
                         THEN value
                         ELSE value + RealDist01(ds.d.rng)
         IN [ds EXCEPT
                !.d.rng = IF NoAddedRandom \in ds.d.options THEN @ ELSE rng_next(@),
                !.output[address + 1] = Param(jittered),
                !.hitCounts[address + 1] = @ + 1]
    ELSE ds

\* completions_reached with > for >=
completions_reached_late(currentCompletions, requiredCompletions) ==
    currentCompletions > requiredCompletions

\* the test that a completed match is the one that yields a value
completions_reached(currentCompletions, requiredCompletions) ==
    currentCompletions >= requiredCompletions

\* one iteration of the loop of extractor_process_module_data, the filter
\* having reported a completed match for this word
extractor_completed(ds) ==
    LET counted == [ds EXCEPT !.d.currentCompletions = @ + 1]
        stepped ==
            IF completions_reached(counted.d.currentCompletions,
                                   counted.d.requiredCompletions)
            THEN extractor_store([counted EXCEPT !.d.currentCompletions = 0],
                                 extract_A(counted.d.filter),
                                 extract_D(counted.d.filter) * Den)
            ELSE counted
    IN [stepped EXCEPT !.d.filter = clear_completion(@)]

\* one iteration of the loop of extractor_process_module_data
extractor_word(ds, dataWord) ==
    LET fed == [ds EXCEPT !.d.filter = process_data(@, dataWord)]
    IN IF is_complete(fed.d.filter) THEN extractor_completed(fed) ELSE fed

\* does feeding dataWord complete the filter of ds
completes(ds, dataWord) == is_complete(process_data(ds.d.filter, dataWord))

RECURSIVE extractor_loop(_, _, _, _)
extractor_loop(ds, data, size, wordIndex) ==
    IF wordIndex < size
    THEN extractor_loop(extractor_word(ds, data[wordIndex + 1]), data, size,
                        wordIndex + 1)
    ELSE ds

\* extractor_process_module_data(ds, data, size)
extractor_process_module_data(ds, data, size) == extractor_loop(ds, data, size, 0)

\* the states of ds before each word of data is fed, and after the last one
RECURSIVE extractor_states(_, _, _)
extractor_states(ds, data, wordIndex) ==
    IF wordIndex < Len(data)
    THEN <<ds>> \o extractor_states(extractor_word(ds, data[wordIndex + 1]), data,
                                    wordIndex + 1)
    ELSE <<ds>>

\* number of words of data that complete the filter when fed to ds in order
RECURSIVE extractor_matches(_, _, _)
extractor_matches(ds, data, wordIndex) ==
    IF wordIndex < Len(data)
    THEN (IF completes(ds, data[wordIndex + 1]) THEN 1 ELSE 0)
         + extractor_matches(extractor_word(ds, data[wordIndex + 1]), data,
                             wordIndex + 1)
    ELSE 0

----------------------------------------------------------------------------
(* ListFilterExtractor (combinatorial data source) *)

\* u32 arithmetic wraps modulo 2^32; the model checker's integers end below
\* that, so the model wraps modulo U32, which like 2^32 lies far above every
\* buffer size and word count
U32 == 1073741824

\* the word at data + i: inside the buffer the word of the buffer, beyond it
\* whatever the memory behind the buffer holds (tail)
MemWord(mem, i) ==
    IF i < Len(mem.data)
    THEN mem.data[i + 1]
    ELSE mem.tail[((i - Len(mem.data)) % Len(mem.tail)) + 1]

\* combine(&listFilter, curPtr, curSize): the first min(curSize, wordCount)
\* words at the cursor
combine(listFilter, mem, curPtr, curSize) ==
    [i \in 1..Min2(curSize, listFilter.wordCount) |-> MemWord(mem, curPtr + i - 1)]

\* extract_address_and_value_from_combined(&listFilter, combined)
extract_address_and_value_from_combined(listFilter, combined) ==
    IF Len(combined) >= 1 /\ MarkerBit(combined[1]) = 1
    THEN [matched |-> TRUE,
          address |-> AddressBits(combined[1]),
          value   |-> DataBits(combined[1])]
    ELSE [matched |-> FALSE, address |-> 0, value |-> 0]

\* ceil(log2(n)) for n >= 1
RECURSIVE CeilLog2(_)
CeilLog2(n) == IF n <= 1 THEN 0 ELSE 1 + CeilLog2((n + 1) \div 2)

\* floor(log2(n)) for n >= 1
RECURSIVE FloorLog2(_)
FloorLog2(n) == IF n <= 1 THEN 0 ELSE 1 + FloorLog2(n \div 2)

\* a | b on the non-negative integers
RECURSIVE BitOr(_, _)
BitOr(a, b) ==
    IF a = 0 THEN b
    ELSE IF b = 0 THEN a
    ELSE (IF a % 2 = 1 \/ b % 2 = 1 THEN 1 ELSE 0) + 2 * BitOr(a \div 2, b \div 2)

\* get_extract_bits(&ex->listFilter, MultiWordFilter::CacheA)
get_base_address_bits(ex) == ex.listFilter.addressBits

\* the repetition bits rounded down
get_repetition_address_bits_floor(ex) == FloorLog2(ex.repetitions)

get_repetition_address_bits(ex) == CeilLog2(ex.repetitions)

get_address_bits(ex) == get_base_address_bits(ex) + get_repetition_address_bits(ex)

\* get_address_count(ListFilterExtractor *)
get_address_count_lfe(ex) == Pow2(get_address_bits(ex))

\* make_listfilter_extractor
make_listfilter_extractor(listFilter, repetitions, rngSeed, options) ==
    [listFilter |-> listFilter,
     rng |-> rngSeed,
     repetitions |-> repetitions,
     options |-> options]

\* make_datasource_listfilter_extractor for a list filter
\* [wordCount, addressBits]
make_datasource_listfilter(listFilter, repetitions, rngSeed, moduleIndex, options) ==
    LET ex == make_listfilter_extractor(listFilter, repetitions, rngSeed, options)
        addressCount == get_address_count_lfe(ex)
    IN [type |-> DataSource_ListFilterExtractor,
        d |-> ex,
        moduleIndex |-> moduleIndex,
        output |-> push_param_vector(addressCount, invalid_param),
        hitCounts |-> push_param_vector(addressCount, 0)]

\* make_datasource_listfilter_extractor for the list filter of the model's
\* words: wordCount words, one address bit
make_datasource_listfilter_extractor(wordCount, repetitions, rngSeed, moduleIndex, options) ==
    make_datasource_listfilter([wordCount |-> wordCount, addressBits |-> 1],
                               repetitions, rngSeed, moduleIndex, options)

\* listfilter_extractor_begin_event
listfilter_extractor_begin_event(ds) == [ds EXCEPT !.output = invalidate_all(@)]

\* listfilter_store without the test of the slot: every match is stored
listfilter_store_every_hit(ds, address, value) ==
    [ds EXCEPT !.output[address + 1] = Param(value),
               !.hitCounts[address + 1] = @ + 1]

\* the store of an extracted value in listfilter_extractor_process_module_data
listfilter_store(ds, address, value) ==
    IF ~is_param_valid(ds.output[address + 1])
    THEN LET jittered == IF NoAddedRandom \in ds.d.options
                         THEN value
                         ELSE value + RealDist01(ds.d.rng)
         IN [ds EXCEPT
                !.d.rng = IF NoAddedRandom \in ds.d.options THEN @ ELSE rng_next(@),
                !.output[address + 1] = Param(jittered),
                !.hitCounts[address + 1] = @ + 1]
    ELSE ds

\* the final address of a match of repetition rep
listfilter_address(ex, address, rep) ==
    IF RepetitionContributesLowAddressBits \in ex.options
    THEN BitOr(address * Pow2(get_repetition_address_bits(ex)), rep)
    ELSE BitOr(address, rep * Pow2(get_base_address_bits(ex)))

\* The loop of listfilter_extractor_process_module_data from repetition rep on.
\* st = [ds, curPtr, curSize, combinedAt, matched]: the data source, the read
\* cursor as an offset from the start of the module buffer, the u32 count of
\* words left, the cursors combine() has been called at and the number of
\* repetitions that matched.  base + dataSize is the end
\* of the range handed to the function.
RECURSIVE listfilter_loop(_, _, _, _)
listfilter_loop(st, mem, endOff, rep) ==
    IF rep < st.ds.d.repetitions
    THEN LET ex == st.ds.d
             combined == combine(ex.listFilter, mem, st.curPtr, st.curSize)
             curPtr == st.curPtr + ex.listFilter.wordCount
             curSize == (st.curSize - ex.listFilter.wordCount) % U32
             result == extract_address_and_value_from_combined(ex.listFilter, combined)
             moved == [st EXCEPT !.curPtr = curPtr, !.curSize = curSize,
                                 !.combinedAt = Append(@, st.curPtr),
                                 !.matched = IF result.matched THEN @ + 1 ELSE @]
         IN IF ~result.matched
            THEN listfilter_loop(moved, mem, endOff, rep + 1)
            ELSE LET stored == [moved EXCEPT !.ds =
                                    listfilter_store(@,
                                        listfilter_address(ex, result.address, rep),
                                        result.value * Den)]
                 IN IF curPtr >= endOff
                    THEN stored
                    ELSE listfilter_loop(stored, mem, endOff, rep + 1)
    ELSE st

\* listfilter_extractor_process_module_data(ds, data, dataSize), data being
\* the module buffer plus the offset base; the result holds the data source
\* and the returned cursor
listfilter_extractor_process_module_data(ds, mem, base, dataSize) ==
    listfilter_loop([ds |-> ds, curPtr |-> base, curSize |-> dataSize,
                     combinedAt |-> <<>>, matched |-> 0],
                    mem, base + dataSize, 0)

----------------------------------------------------------------------------
(* Operators *)

Operator_Calibration == "Calibration"
Operator_KeepPrevious == "KeepPrevious"
Operator_Aggregate_Sum == "Aggregate_Sum"
Operator_RateMonitor_PrecalculatedRate == "RateMonitor_PrecalculatedRate"
Operator_RateMonitor_FlowRate == "RateMonitor_FlowRate"
Operator_ExportSinkFull == "ExportSinkFull"
Operator_ExportSinkSparse == "ExportSinkSparse"

\* Operator::NoCondition
NoCondition == -1

\* the PipeVectors of a data source of the event (src = "ds") or of the
\* output of an operator of the event (src = "op"); idx is the C index
Pipe(src, idx) == [src |-> src, idx |-> idx]

\* the data vector an input pipe points to
PipeData(pipe, sources, ops) ==
    IF pipe.src = "ds" THEN sources[pipe.idx + 1].output ELSE ops[pipe.idx + 1].outputs

\* make_operator, assign_input and push_output_vectors: an operator with its
\* input pipes and one output vector of the given size and limits
make_operator(type, inputs, size, lowerLimit, upperLimit) ==
    [type |-> type,
     inputs |-> inputs,
     conditionIndex |-> NoCondition,
     outputs |-> push_param_vector(size, invalid_param),
     outputLowerLimits |-> push_param_vector(size, lowerLimit),
     outputUpperLimits |-> push_param_vector(size, upperLimit),
     d |-> [none |-> TRUE]]

\* a calibration that computes with whatever it is given
calibrate_unguarded(param, paramMin, calibMin, calibFactor) ==
    Param((param.v - paramMin) * calibFactor + calibMin)

\* calibrate(param, paramMin, calibMin, calibFactor)
calibrate(param, paramMin, calibMin, calibFactor) ==
    IF is_param_valid(param)
    THEN Param((param.v - paramMin) * calibFactor + calibMin)
    ELSE param

\* make_calibration(arena, input, unitMin, unitMax) for an input of the given
\* size with the limits [inLower, inUpper) at every index
make_calibration(input, size, inLower, inUpper, unitMin, unitMax) ==
    [make_operator(Operator_Calibration, <<input>>, size, unitMin, unitMax)
        EXCEPT !.d = [calibFactors |->
                         push_param_vector(size, (unitMax - unitMin) \div (inUpper - inLower)),
                      inputLowerLimits |-> push_param_vector(size, inLower)]]

\* calibration_step
calibration_step(op, in) ==
    [op EXCEPT !.outputs =
        [idx \in 1..Len(in) |->
            calibrate(in[idx], op.d.inputLowerLimits[idx],
                      op.outputLowerLimits[idx], op.d.calibFactors[idx])]]

\* is_valid_and_inside(param, thresholds)
is_valid_and_inside(param, thresholds) ==
    is_param_valid(param) /\ thresholds.min <= param.v /\ thresholds.max >= param.v

\* make_aggregate_sum(arena, input, thresholds)
make_aggregate_sum(input, size, inLower, inUpper, thresholds) ==
    [make_operator(Operator_Aggregate_Sum, <<input>>, 1, size * inLower, size * inUpper)
        EXCEPT !.d = thresholds]

RECURSIVE SumInside(_, _, _)
SumInside(in, thresholds, i) ==
    IF i > Len(in) THEN 0
    ELSE (IF is_valid_and_inside(in[i], thresholds) THEN in[i].v ELSE 0)
         + SumInside(in, thresholds, i + 1)

\* aggregate_sum_step
aggregate_sum_step(op, in) ==
    LET validSeen == \E i \in 1..Len(in) : is_valid_and_inside(in[i], op.d)
    IN [op EXCEPT !.outputs =
            <<IF validSeen THEN Param(SumInside(in, op.d, 1)) ELSE invalid_param>>]

\* make_keep_previous(arena, inPipe, keepValid)
make_keep_previous(input, size, keepValid) ==
    [make_operator(Operator_KeepPrevious, <<input>>, size, 0, 0)
        EXCEPT !.d = [previousInput |-> push_param_vector(size, invalid_param),
                      keepValid |-> keepValid]]

\* the stored value of keep_previous_step after it has seen the input element
keep_previous_store(keepValid, previous, in) ==
    IF ~keepValid \/ is_param_valid(in) THEN in ELSE previous

\* a step that hands its input through to its output
keep_previous_step_passthrough(op, in) ==
    [op EXCEPT
        !.outputs = in,
        !.d.previousInput =
            [idx \in 1..Len(in) |->
                keep_previous_store(op.d.keepValid, op.d.previousInput[idx], in[idx])]]

\* keep_previous_step
keep_previous_step(op, in) ==
    [op EXCEPT
        !.outputs = [idx \in 1..Len(in) |-> op.d.previousInput[idx]],
        !.d.previousInput =
            [idx \in 1..Len(in) |->
                keep_previous_store(op.d.keepValid, op.d.previousInput[idx], in[idx])]]

----------------------------------------------------------------------------
(* Rate monitors.  A RateSampler is an object outside a2; the model records
   the calls it receives: the number of sample() and of recordRate() calls
   and the value of the last call.  Counts held in doubles are integers. *)

NoParamIndex == -1

NewSampler == [samples |-> 0, rates |-> 0, lastValue |-> Invalid]

\* RateSampler::sample(value)
sampler_sample(sampler, value) ==
    [sampler EXCEPT !.samples = @ + 1, !.lastValue = value]

\* RateSampler::recordRate(value)
sampler_recordRate(sampler, value) ==
    [sampler EXCEPT !.rates = @ + 1, !.lastValue = value]

\* the input elements a rate monitor looks at, in sampler order: every
\* element of an input whose param index is NoParamIndex, else the one element
RECURSIVE monitored(_, _, _)
monitored(ins, input_param_indexes, ii) ==
    IF ii > Len(ins) THEN <<>>
    ELSE (IF input_param_indexes[ii] = NoParamIndex
          THEN ins[ii]
          ELSE <<ins[ii][input_param_indexes[ii] + 1]>>)
         \o monitored(ins, input_param_indexes, ii + 1)

\* make_rate_monitor(arena, inputs, input_param_indexes, samplers, type);
\* samplerCount is the expected sampler count computed from the input sizes
make_rate_monitor(type, inputs, input_param_indexes, samplerIds) ==
    [make_operator(type, inputs, 0, 0, 0)
        EXCEPT !.d = [samplers |-> samplerIds,
                      input_param_indexes |-> input_param_indexes,
                      hitCounts |-> IF type = Operator_RateMonitor_FlowRate
                                    THEN push_param_vector(Len(samplerIds), 0)
                                    ELSE <<>>]]

\* the FlowRate case of rate_monitor_step: the hit counts afterwards
flow_rate_count(hitCounts, values) ==
    [k \in 1..Len(hitCounts) |->
        IF is_param_valid(values[k]) THEN hitCounts[k] + 1 ELSE hitCounts[k]]

\* a step that hands the hit counts of a FlowRate monitor to its samplers
rate_monitor_step_sampling(op, ins, smp) ==
    LET values == monitored(ins, op.d.input_param_indexes, 1)
        counted == [op EXCEPT !.d.hitCounts = flow_rate_count(@, values)]
    IN [op |-> counted,
        samplers |->
           [id \in 1..Len(smp) |->
               IF \E k \in 1..Len(values) : op.d.samplers[k] = id
               THEN LET k == CHOOSE k \in 1..Len(values) : op.d.samplers[k] = id
                    IN IF op.type = Operator_RateMonitor_FlowRate
                       THEN sampler_sample(smp[id], Param(counted.d.hitCounts[k]))
                       ELSE sampler_recordRate(smp[id], values[k])
               ELSE smp[id]]]

\* rate_monitor_step: the operator and the samplers afterwards
rate_monitor_step(op, ins, smp) ==
    LET values == monitored(ins, op.d.input_param_indexes, 1)
    IN IF op.type = Operator_RateMonitor_FlowRate
       THEN [op |-> [op EXCEPT !.d.hitCounts = flow_rate_count(@, values)],
             samplers |-> smp]
       ELSE [op |-> op,
             samplers |->
                [id \in 1..Len(smp) |->
                    IF \E k \in 1..Len(values) : op.d.samplers[k] = id
                    THEN LET k == CHOOSE k \in 1..Len(values) : op.d.samplers[k] = id
                         IN sampler_recordRate(smp[id], values[k])
                    ELSE smp[id]]]

\* rate_monitor_sample_flow: the samplers afterwards
rate_monitor_sample_flow(op, smp) ==
    [id \in 1..Len(smp) |->
        IF \E k \in 1..Len(op.d.hitCounts) : op.d.samplers[k] = id
        THEN LET k == CHOOSE k \in 1..Len(op.d.hitCounts) : op.d.samplers[k] = id
             IN sampler_sample(smp[id], Param(op.d.hitCounts[k]))
        ELSE smp[id]]

----------------------------------------------------------------------------
(* Export sinks.  A stream pointer is "null" or points to a stream that is
   "good" or "failed".  A write the disk refuses throws, which leaves the
   stream failed.  io = [writes, failAt]: the write calls made in the pass so
   far and the write call of the pass that the disk refuses (0: none). *)

U16Max == 65535

SizeofDouble == 8

SizeofU16 == 2

\* make_export_sink(arena, output_filename, compressionLevel, format,
\* dataInputs, condInput, condIndex): inputs holds the data inputs followed,
\* if condIndex >= 0, by the condition input
make_export_sink(type, compressionLevel, inputs, condIndex) ==
    [make_operator(type, inputs, 0, 0, 0)
        EXCEPT !.d = [compressionLevel |-> compressionLevel,
                      condIndex |-> condIndex,
                      ostream |-> "null",
                      z_ostream |-> "null",
                      bytesWritten |-> 0,
                      eventsWritten |-> 0,
                      lastError |-> "",
                      writeCalls |-> 0]]

\* export_sink_begin_run: opening the file fails or not (openFails); enabling
\* the exceptions of a stream that failed to open throws
export_sink_begin_run(op, openFails) ==
    IF openFails
    THEN [op EXCEPT !.d.ostream = "failed",
                    !.d.lastError = "File Export: Error opening output file"]
    ELSE [op EXCEPT !.d.ostream = "good",
                    !.d.z_ostream = IF op.d.compressionLevel # 0 THEN "good" ELSE @]

\* export_sink_end_run
export_sink_end_run(op) == [op EXCEPT !.d.z_ostream = "null", !.d.ostream = "null"]

\* the stream the steps write to
export_outp(d) == IF d.compressionLevel # 0 THEN d.z_ostream ELSE d.ostream

\* the sink after a write threw
export_write_failed(op) ==
    LET failed == IF op.d.compressionLevel # 0
                  THEN [op EXCEPT !.d.z_ostream = "failed"]
                  ELSE [op EXCEPT !.d.ostream = "failed"]
    IN [failed EXCEPT !.d.lastError = "Error writing to output file"]

\* a test that lets a step write whatever the state of the stream
export_may_write_always(outp) == TRUE

\* the test that guards the writes of a step
export_may_write(outp) == outp = "good"

\* a writer that puts out the index of every element, valid or not
write_indexed_parameter_vector_dense(vec) ==
    [count |-> Cardinality({i \in 1..Len(vec) : is_param_valid(vec[i])}),
     indices |-> [i \in 1..Len(vec) |-> i - 1],
     values |-> vec]

\* write_indexed_parameter_vector(out, vec): the record written, a 16 bit
\* count, the 16 bit indices of the valid elements, then their values
write_indexed_parameter_vector(vec) ==
    LET last == (Len(vec) % (U16Max + 1)) - 1
        valid == {i \in 0..(Len(vec) - 1) : is_param_valid(vec[i + 1])}
        validCount == Cardinality(valid) % (U16Max + 1)
        RECURSIVE indices(_)
        indices(i) == IF i > last THEN <<>>
                      ELSE (IF i \in valid THEN <<i>> ELSE <<>>) \o indices(i + 1)
        RECURSIVE values(_)
        values(i) == IF i > last THEN <<>>
                     ELSE (IF i \in valid THEN <<vec[i + 1]>> ELSE <<>>) \o values(i + 1)
    IN [count |-> validCount, indices |-> indices(0), values |-> values(0)]

\* the bytes of a record of write_indexed_parameter_vector
indexed_bytes(rec) ==
    SizeofU16 + SizeofU16 * Len(rec.indices) + SizeofDouble * Len(rec.values)

\* the write calls write_indexed_parameter_vector makes for a record
indexed_writes(rec) == 1 + Len(rec.indices) + Len(rec.values)

\* the items of a record in the order they go to the stream
indexed_stream(rec) == <<rec.count>> \o rec.indices \o rec.values

\* The write loop of export_sink_full_step (sparse = FALSE) and of
\* export_sink_sparse_step (sparse = TRUE) from input inputIndex (C index) on.
\* st = [op, io]
RECURSIVE export_write_loop(_, _, _, _, _)
export_write_loop(st, ins, dataInputCount, sparse, inputIndex) ==
    IF inputIndex < dataInputCount /\ export_may_write(export_outp(st.op.d))
    THEN LET input == ins[inputIndex + 1]
             calls == IF sparse
                      THEN indexed_writes(write_indexed_parameter_vector(input))
                      ELSE 1
             bytes == IF sparse
                      THEN indexed_bytes(write_indexed_parameter_vector(input))
                      ELSE Len(input) * SizeofDouble
             refused == st.io.failAt > st.io.writes
                        /\ st.io.failAt <= st.io.writes + calls
         IN IF refused
            THEN [op |-> export_write_failed(
                            [st.op EXCEPT !.d.writeCalls = @ + st.io.failAt - st.io.writes]),
                  io |-> [st.io EXCEPT !.writes = st.io.failAt],
                  thrown |-> TRUE]
            ELSE export_write_loop(
                    [st EXCEPT !.op.d.bytesWritten = @ + bytes,
                               !.op.d.writeCalls = @ + calls,
                               !.io.writes = @ + calls],
                    ins, dataInputCount, sparse, inputIndex + 1)
    ELSE [op |-> st.op, io |-> st.io, thrown |-> FALSE]

\* export_sink_full_step and export_sink_sparse_step: the sink and io afterwards
export_sink_step(op, ins, io, sparse) ==
    LET outp == export_outp(op.d)
        condUsed == op.d.condIndex >= 0
        dataInputCount == IF condUsed THEN Len(ins) - 1 ELSE Len(ins)
    IN IF outp = "null"
       THEN [op |-> op, io |-> io]
       ELSE IF condUsed /\ ~is_param_valid(ins[Len(ins)][op.d.condIndex + 1])
       THEN [op |-> op, io |-> io]
       ELSE IF export_may_write(outp)
       THEN LET r == export_write_loop([op |-> op, io |-> io], ins, dataInputCount,
                                       sparse, 0)
            IN IF r.thrown
               THEN [op |-> r.op, io |-> r.io]
               ELSE [op |-> [r.op EXCEPT !.d.eventsWritten = @ + 1], io |-> r.io]
       ELSE [op |-> op, io |-> io]

export_sink_full_step(op, ins, io) == export_sink_step(op, ins, io, FALSE)

export_sink_sparse_step(op, ins, io) == export_sink_step(op, ins, io, TRUE)

----------------------------------------------------------------------------
(* Graph driver: data sources *)

EventIndexes == 0..(NumEvents - 1)
ModuleIndexes == 0..(NumModules - 1)

RECURSIVE SeqsUpTo(_, _)
SeqsUpTo(S, n) ==
    IF n = 0 THEN {<<>>}
    ELSE LET shorter == SeqsUpTo(S, n - 1)
         IN shorter \cup {Append(q, x) : q \in {r \in shorter : Len(r) = n - 1}, x \in S}

Buffers == SeqsUpTo(Words, MaxDataSize)

\* the module buffers fed to the operator graphs: at most one word per call
OneWordBuffers == {data \in Buffers : Len(data) <= 1}

Tails == [1..TailLen -> Words]

ZeroTail == [i \in 1..TailLen |-> 0]

\* the begin_event dispatch of a2_begin_event for one data source
datasource_begin_event(ds) ==
    IF ds.type = DataSource_Extractor
    THEN extractor_begin_event(ds)
    ELSE listfilter_extractor_begin_event(ds)

\* a2_begin_event(a2, eventIndex): the data sources of eventIndex afterwards
a2_begin_event(sources, eventIndex) ==
    [srcIdx \in 1..Len(sources) |-> datasource_begin_event(sources[srcIdx])]

\* the ListFilterExtractor case without its guard
listfilter_invoked_always(curPtr, endPtr) == TRUE

\* the guard of the ListFilterExtractor case of a2_process_module_data
listfilter_invoked(curPtr, endPtr) == curPtr < endPtr

\* The loop of a2_process_module_data from source srcIdx (C index) on.
\* st = [sources, curPtr, calls]: the data sources of the event, the cursor of
\* the ListFilterExtractors, and one record per ListFilterExtractor invoked.
RECURSIVE process_loop(_, _, _, _)
process_loop(st, moduleIndex, mem, srcIdx) ==
    IF srcIdx < Len(st.sources)
    THEN LET ds == st.sources[srcIdx + 1]
             endPtr == Len(mem.data)
         IN IF ds.moduleIndex # moduleIndex
            THEN process_loop(st, moduleIndex, mem, srcIdx + 1)
            ELSE IF ds.type = DataSource_Extractor
            THEN process_loop(
                    [st EXCEPT !.sources[srcIdx + 1] =
                        extractor_process_module_data(ds, mem.data, Len(mem.data))],
                    moduleIndex, mem, srcIdx + 1)
            ELSE IF listfilter_invoked(st.curPtr, endPtr)
            THEN LET r == listfilter_extractor_process_module_data(
                              ds, mem, st.curPtr, endPtr - st.curPtr)
                 IN process_loop(
                        [st EXCEPT !.sources[srcIdx + 1] = r.ds,
                                   !.curPtr = r.curPtr,
                                   !.calls = Append(@,
                                        [srcIdx |-> srcIdx,
                                         data |-> st.curPtr,
                                         dataSize |-> endPtr - st.curPtr,
                                         returned |-> r.curPtr,
                                         combinedAt |-> r.combinedAt,
                                         matched |-> r.matched])],
                        moduleIndex, mem, srcIdx + 1)
            ELSE process_loop(st, moduleIndex, mem, srcIdx + 1)
    ELSE st

\* a2_process_module_data(a2, eventIndex, moduleIndex, data, dataSize)
a2_process_module_data(sources, moduleIndex, mem) ==
    process_loop([sources |-> sources, curPtr |-> 0, calls |-> <<>>],
                 moduleIndex, mem, 0)

\* some combine() of the call read a word at or beyond data + dataSize
reads_beyond(sources, moduleIndex, data) ==
    LET r == a2_process_module_data(sources, moduleIndex,
                                    [data |-> data, tail |-> ZeroTail])
    IN \E c \in 1..Len(r.calls) :
          \E k \in 1..Len(r.calls[c].combinedAt) :
             LET at == r.calls[c].combinedAt[k]
                 left == IF k = 1 THEN r.calls[c].dataSize
                         ELSE (r.calls[c].dataSize
                               - (k - 1) * sources[r.calls[c].srcIdx + 1].d.listFilter.wordCount) % U32
                 n == Min2(left, sources[r.calls[c].srcIdx + 1].d.listFilter.wordCount)
             IN n > 0 /\ at + n > Len(data)

\* matches the call adds to the count of each data source: the completed
\* filter matches of an Extractor, the matching repetitions of a
\* ListFilterExtractor (calls: the records of the ListFilterExtractors invoked)
matches_added(sources, moduleIndex, data, calls) ==
    [srcIdx \in 1..Len(sources) |->
        IF sources[srcIdx].moduleIndex # moduleIndex
        THEN 0
        ELSE IF sources[srcIdx].type = DataSource_Extractor
        THEN extractor_matches(sources[srcIdx], data, 0)
        ELSE IF \E c \in 1..Len(calls) : calls[c].srcIdx = srcIdx - 1
        THEN LET c == CHOOSE c \in 1..Len(calls) : calls[c].srcIdx = srcIdx - 1
             IN calls[c].matched
        ELSE 0]

NoCall == [fn |-> "none", ei |-> 0, info |-> <<>>]

\* the contents the memory behind the buffer can have, as far as the call reads it
TailsRead(sources, moduleIndex, data) ==
    IF reads_beyond(sources, moduleIndex, data) THEN Tails ELSE {ZeroTail}

BeginEvent(ei) ==
    /\ \A srcIdx \in 1..Len(dataSources[ei]) :
          \A a \in 1..Len(dataSources[ei][srcIdx].hitCounts) :
             dataSources[ei][srcIdx].hitCounts[a] < MaxHits
    /\ dataSources' = [dataSources EXCEPT ![ei] = a2_begin_event(@, ei)]
    /\ matchCount' = [matchCount EXCEPT ![ei] = [i \in 1..Len(@) |-> 0]]
    /\ lastCall' = IF Len(dataSources[ei]) = 0 THEN lastCall
                   ELSE [NoCall EXCEPT !.fn = "a2_begin_event", !.ei = ei]
    /\ UNCHANGED <<worker, operators, operatorRanks, conditionBits, samplers, history,
                   passCount>>

ProcessModuleData(ei, mi, data) ==
    \E tail \in TailsRead(dataSources[ei], mi, data) :
       LET r == a2_process_module_data(dataSources[ei], mi,
                                       [data |-> data, tail |-> tail])
           added == matches_added(dataSources[ei], mi, data, r.calls)
       IN /\ dataSources' = [dataSources EXCEPT ![ei] = r.sources]
          /\ matchCount' = [matchCount EXCEPT ![ei] =
                               [i \in 1..Len(@) |-> Min2(@[i] + added[i], MaxMatches)]]
          /\ lastCall' = IF \A i \in 1..Len(dataSources[ei]) :
                                  dataSources[ei][i].moduleIndex # mi
                           THEN lastCall
                           ELSE [NoCall EXCEPT !.fn = "a2_process_module_data",
                                               !.ei = ei]
          /\ UNCHANGED <<worker, operators, operatorRanks, conditionBits, samplers, history,
                         passCount>>

----------------------------------------------------------------------------
(* Graph driver: operators *)

IsExportSink(op) == op.type \in {Operator_ExportSinkFull, Operator_ExportSinkSparse}

\* the data vectors of the inputs of op, as they are when op is reached
InputsOf(op, sources, ops) ==
    [i \in 1..Len(op.inputs) |-> PipeData(op.inputs[i], sources, ops)]

Operator_ConditionInterval == "ConditionInterval"

\* is_condition_operator(op)
is_condition_operator(op) == op.type = Operator_ConditionInterval

\* OperatorTable[op->type].step(op, a2) on the pass state
\* ps = [ops, samplers, io, stepped, aborted]; the table has no entry for
\* the condition operators, so that their step is a null pointer and the
\* pass ends in the assertion or in the call
operator_step(ps, opIdx, sources) ==
    LET op == ps.ops[opIdx + 1]
        ins == InputsOf(op, sources, ps.ops)
        done == [ps EXCEPT !.stepped = Append(@, [op |-> opIdx, ins |-> ins])]
    IN IF is_condition_operator(op)
       THEN [ps EXCEPT !.aborted = TRUE]
       ELSE IF op.type = Operator_Calibration
       THEN [done EXCEPT !.ops[opIdx + 1] = calibration_step(op, ins[1])]
       ELSE IF op.type = Operator_Aggregate_Sum
       THEN [done EXCEPT !.ops[opIdx + 1] = aggregate_sum_step(op, ins[1])]
       ELSE IF op.type = Operator_KeepPrevious
       THEN [done EXCEPT !.ops[opIdx + 1] = keep_previous_step(op, ins[1])]
       ELSE IF op.type \in {Operator_RateMonitor_FlowRate,
                            Operator_RateMonitor_PrecalculatedRate}
       THEN LET r == rate_monitor_step(op, ins, ps.samplers)
            IN [done EXCEPT !.ops[opIdx + 1] = r.op, !.samplers = r.samplers]
       ELSE IF op.type = Operator_ExportSinkFull
       THEN LET r == export_sink_full_step(op, ins, ps.io)
            IN [done EXCEPT !.ops[opIdx + 1] = r.op, !.io = r.io]
       ELSE LET r == export_sink_sparse_step(op, ins, ps.io)
            IN [done EXCEPT !.ops[opIdx + 1] = r.op, !.io = r.io]

\* a test that lets every operator step, whatever its condition bit
condition_passes_always(conditionIndex, bits) == TRUE

\* the test of a2_end_event that lets an operator step
condition_passes(conditionIndex, bits) ==
    conditionIndex < 0 \/ conditionIndex \in bits

\* a loop that takes the operators from the end of the array to its start
RECURSIVE end_event_loop_backwards(_, _, _, _)
end_event_loop_backwards(ps, sources, bits, opIdx) ==
    IF opIdx < Len(ps.ops)
    THEN LET later == end_event_loop_backwards(ps, sources, bits, opIdx + 1)
         IN IF later.ops[opIdx + 1].conditionIndex < 0
               \/ later.ops[opIdx + 1].conditionIndex \in bits
            THEN operator_step(later, opIdx, sources)
            ELSE later
    ELSE ps

\* the loop of a2_end_event from operator opIdx (C index) on: the operators
\* are taken in the order of the array
RECURSIVE end_event_loop(_, _, _, _)
end_event_loop(ps, sources, bits, opIdx) ==
    IF opIdx < Len(ps.ops) /\ ~ps.aborted
    THEN IF condition_passes(ps.ops[opIdx + 1].conditionIndex, bits)
         THEN end_event_loop(operator_step(ps, opIdx, sources), sources, bits, opIdx + 1)
         ELSE end_event_loop(ps, sources, bits, opIdx + 1)
    ELSE ps

\* a2_end_event(a2, eventIndex): the pass state afterwards; Len(stepped) is
\* opSteppedCount
a2_end_event(ops, sources, bits, smp, failAt) ==
    end_event_loop([ops |-> ops, samplers |-> smp,
                    io |-> [writes |-> 0, failAt |-> failAt], stepped |-> <<>>,
                    aborted |-> FALSE],
                   sources, bits, 0)

\* the loop of a2_timetick over the operators of one event index
RECURSIVE timetick_loop(_, _, _)
timetick_loop(ops, smp, opIdx) ==
    IF opIdx < Len(ops)
    THEN timetick_loop(ops,
                       IF ops[opIdx + 1].type = Operator_RateMonitor_FlowRate
                       THEN rate_monitor_sample_flow(ops[opIdx + 1], smp)
                       ELSE smp,
                       opIdx + 1)
    ELSE smp

\* a2_timetick(a2): the samplers afterwards
RECURSIVE a2_timetick(_, _, _)
a2_timetick(allOps, smp, ei) ==
    IF ei < NumEvents
    THEN a2_timetick(allOps, timetick_loop(allOps[ei], smp, 0), ei + 1)
    ELSE smp

\* a2_begin_run(a2, logger): the operators of one event index afterwards;
\* failing: the operators (C index) whose file fails to open
a2_begin_run(ops, failing) ==
    [i \in 1..Len(ops) |->
        IF IsExportSink(ops[i]) THEN export_sink_begin_run(ops[i], (i - 1) \in failing)
        ELSE ops[i]]

\* a2_end_run(a2): the operators of one event index afterwards
a2_end_run(ops) ==
    [i \in 1..Len(ops) |->
        IF IsExportSink(ops[i]) THEN export_sink_end_run(ops[i]) ELSE ops[i]]

\* the calls of one event come in the order begin, module data, end
\* (the parser callbacks of the stream worker)
InEvent(ei) ==
    lastCall.fn \in {"a2_begin_event", "a2_process_module_data"} /\ lastCall.ei = ei

NoEvent == lastCall.fn \notin {"a2_begin_event", "a2_process_module_data"}

EventBegin(ei) ==
    /\ NoEvent
    /\ passCount < MaxPasses
    /\ BeginEvent(ei)

EventData(ei, mi, data) ==
    /\ InEvent(ei)
    /\ ProcessModuleData(ei, mi, data)

\* what the steps of the pass saw, appended to the history of the operators
\* that keep one: the input of a KeepPrevious, the stream of an export sink
history_after(hist, ops, stepped) ==
    [i \in 1..Len(ops) |->
        IF \E k \in 1..Len(stepped) : stepped[k].op = i - 1
        THEN LET k == CHOOSE k \in 1..Len(stepped) : stepped[k].op = i - 1
             IN IF ops[i].type = Operator_KeepPrevious
                THEN Append(hist[i], stepped[k].ins[1])
                ELSE IF IsExportSink(ops[i])
                THEN Append(hist[i], export_outp(ops[i].d))
                ELSE hist[i]
        ELSE hist[i]]

\* the write calls of the pass when the disk refuses none
WritesOfPass(ei) ==
    a2_end_event(operators[ei], dataSources[ei], conditionBits, samplers, 0).io.writes

EndEvent(ei) ==
    /\ InEvent(ei)
    /\ \E failAt \in 0..WritesOfPass(ei) :
          LET r == a2_end_event(operators[ei], dataSources[ei], conditionBits,
                                samplers, failAt)
          IN /\ operators' = [operators EXCEPT ![ei] = r.ops]
             /\ samplers' = r.samplers
             /\ history' = [history EXCEPT ![ei] = history_after(@, operators[ei], r.stepped)]
             /\ lastCall' = [fn |-> IF r.aborted THEN "abort" ELSE "a2_end_event",
                             ei |-> ei, info |-> r.stepped]
    /\ passCount' = passCount + 1
    /\ UNCHANGED <<worker, dataSources, operatorRanks, conditionBits, matchCount>>

Timetick ==
    /\ NoEvent
    /\ \A id \in 1..Len(samplers) : samplers[id].samples < MaxTicks
    /\ samplers' = a2_timetick(operators, samplers, 0)
    /\ lastCall' = [NoCall EXCEPT !.fn = "a2_timetick"]
    /\ UNCHANGED <<worker, dataSources, operators, operatorRanks, conditionBits, matchCount,
                   history, passCount>>

\* a condition step writes its bit of a2->conditionBits: the outcome of its
\* in_range test is any of the two
SetCondition(bit, value) ==
    /\ conditionBits' = IF value THEN conditionBits \cup {bit} ELSE conditionBits \ {bit}
    /\ conditionBits' # conditionBits
    /\ UNCHANGED <<worker, dataSources, operators, operatorRanks, samplers, lastCall,
                   matchCount, history, passCount>>

Running == lastCall.fn \notin {"none", "a2_end_run"}

BeginRun(failing) ==
    /\ ~Running
    /\ passCount < MaxPasses
    /\ operators' = [ei \in EventIndexes |-> a2_begin_run(operators[ei], failing)]
    /\ lastCall' = [NoCall EXCEPT !.fn = "a2_begin_run"]
    /\ UNCHANGED <<worker, dataSources, operatorRanks, conditionBits, samplers, matchCount,
                   history, passCount>>

EndRun ==
    /\ Running
    /\ NoEvent
    /\ operators' = [ei \in EventIndexes |-> a2_end_run(operators[ei])]
    /\ lastCall' = [NoCall EXCEPT !.fn = "a2_end_run"]
    /\ UNCHANGED <<worker, dataSources, operatorRanks, conditionBits, samplers, matchCount,
                   history, passCount>>

----------------------------------------------------------------------------
(* Specification of the data sources: the driver feeds module data to graphs
   that consist of data sources only *)

NoSources == [ei \in EventIndexes |-> <<>>]

OptionSets == SUBSET {NoAddedRandom, RepetitionContributesLowAddressBits}

\* one Extractor at event 0
SourceGraphsA ==
    {[NoSources EXCEPT ![0] =
        <<make_datasource_extractor(c[1], c[2], 0, 0, c[3])>>] :
        c \in {<<1, 1, {}>>, <<1, 2, {NoAddedRandom}>>,
               <<2, 1, {NoAddedRandom}>>, <<2, 2, {NoAddedRandom}>>}}

\* one ListFilterExtractor at event 0
SourceGraphsB ==
    {[NoSources EXCEPT ![0] =
        <<make_datasource_listfilter_extractor(c[1], c[2], 0, 0, c[3])>>] :
        c \in {<<1, 2, {NoAddedRandom}>>,
               <<2, 2, {NoAddedRandom, RepetitionContributesLowAddressBits}>>,
               <<2, 1, {}>>}}

\* a ListFilterExtractor and an Extractor sharing the buffer of module 0 at
\* event 0
SourceGraphsC ==
    {[NoSources EXCEPT
        ![0] = <<make_datasource_listfilter_extractor(1, 1, 0, 0, {NoAddedRandom}),
                 make_datasource_extractor(1, 1, 0, 0, {NoAddedRandom})>>]}

SourceGraphs == SourceGraphsA \cup SourceGraphsB \cup SourceGraphsC

NoOperators == [ei \in EventIndexes |-> <<>>]

\* the modules some data source of event ei is bound to; module data of any
\* other module leaves a2 as it is
BoundModules(ei) ==
    {mi \in ModuleIndexes :
        \E i \in 1..Len(dataSources[ei]) : dataSources[ei][i].moduleIndex = mi}

InitSources ==
    /\ dataSources \in SourceGraphs
    /\ operators = NoOperators
    /\ operatorRanks = NoOperators
    /\ conditionBits = {}
    /\ samplers = <<>>
    /\ lastCall = NoCall
    /\ matchCount = [ei \in EventIndexes |-> [i \in 1..Len(dataSources[ei]) |-> 0]]
    /\ history = NoOperators
    /\ passCount = 0
    /\ worker = NoWorker

NextSources ==
    \/ \E ei \in EventIndexes : BeginEvent(ei)
    \/ \E ei \in EventIndexes : \E mi \in BoundModules(ei), data \in Buffers :
          ProcessModuleData(ei, mi, data)

SpecSources == InitSources /\ [][NextSources]_vars

----------------------------------------------------------------------------
(* Claims about the data sources, checked under SpecSources *)

SourceIds == {<<ei, i>> : ei \in EventIndexes, i \in 1..3}

IsSource(id) == id[2] <= Len(dataSources[id[1]])

Source(id) == dataSources[id[1]][id[2]]

IsExtractor(id) == IsSource(id) /\ Source(id).type = DataSource_Extractor

IsListFilter(id) == IsSource(id) /\ Source(id).type = DataSource_ListFilterExtractor

ValidSlots(ds) == {a \in 1..Len(ds.output) : is_param_valid(ds.output[a])}

\* the slots in which the two states of a data source differ
ChangedSlots(before, after) ==
    {a \in 1..Len(before.output) :
        before.output[a] # after.output[a] \/ before.hitCounts[a] # after.hitCounts[a]}

\* what the claim says of one word fed to an Extractor in state ds
ExtractorWordAsClaimed(ds, w) ==
    LET after == extractor_word(ds, w)
        n == ds.d.requiredCompletions
        address == extract_A(process_data(ds.d.filter, w))
        value == extract_D(process_data(ds.d.filter, w)) * Den
    IN IF ~completes(ds, w)
       THEN /\ ChangedSlots(ds, after) = {}
            /\ after.d.currentCompletions = ds.d.currentCompletions
       ELSE /\ after.d.filter.completionMask = {}
            /\ IF ds.d.currentCompletions + 1 < n
               THEN /\ ChangedSlots(ds, after) = {}
                    /\ after.d.currentCompletions = ds.d.currentCompletions + 1
               ELSE /\ after.d.currentCompletions = 0
                    /\ ChangedSlots(ds, after) \subseteq {address + 1}
                    /\ ~is_param_valid(ds.output[address + 1]) =>
                          /\ ChangedSlots(ds, after) = {address + 1}
                          /\ is_param_valid(after.output[address + 1])
                          /\ after.output[address + 1].v \in value..(value + Den - 1)
                          /\ after.hitCounts[address + 1] = ds.hitCounts[address + 1] + 1

\* C3: an Extractor with requiredCompletions = N has written no output slot
\* while fewer than N filter matches completed in the event; the N-th
\* completed match writes exactly one value, at the address decoded from the
\* filter, and resets the completion counter to 0, so that the next write
\* needs N further matches; the filter's match state is cleared after every
\* completed match, stored or not.
Thm_C3 ==
    \A id \in SourceIds : IsExtractor(id) =>
        LET ds == Source(id)
            n == ds.d.requiredCompletions
            m == matchCount[id[1]][id[2]]
        IN /\ m < n => ValidSlots(ds) = {}
           /\ m < MaxMatches => ds.d.currentCompletions = m % n
           /\ m < MaxMatches => Cardinality(ValidSlots(ds)) <= m \div n
           /\ (m >= n /\ m < 2 * n /\ m < MaxMatches) => Cardinality(ValidSlots(ds)) = 1
           /\ \A w \in Words : ExtractorWordAsClaimed(ds, w)

\* an Extractor needing two completions has seen two and holds one value
Wit_C3 ==
    \E id \in SourceIds :
        /\ IsExtractor(id)
        /\ Source(id).d.requiredCompletions = 2
        /\ matchCount[id[1]][id[2]] = 2
        /\ Cardinality(ValidSlots(Source(id))) = 1
        /\ Source(id).d.currentCompletions = 0

\* the slots valid before the call keep their value and hit count, and a
\* call that stores no value draws no random number
FirstHitKept(before, after) ==
    /\ \A a \in ValidSlots(before) :
          /\ after.output[a] = before.output[a]
          /\ after.hitCounts[a] = before.hitCounts[a]
    /\ ValidSlots(after) = ValidSlots(before) => after.d.rng = before.d.rng

\* C4: first hit wins.  Once output.data[address] is valid, no later match of
\* the event, of an Extractor or of a ListFilterExtractor, changes
\* output.data[address] or hitCounts[address] or draws a random number.
Thm_C4 ==
    \A id \in SourceIds :
        /\ IsExtractor(id) =>
              \A data \in Buffers :
                 FirstHitKept(Source(id),
                     extractor_process_module_data(Source(id), data, Len(data)))
        /\ IsListFilter(id) =>
              \A data \in Buffers : \A tail \in {ZeroTail, [i \in 1..TailLen |-> 7]} :
                 FirstHitKept(Source(id),
                     listfilter_extractor_process_module_data(
                         Source(id), [data |-> data, tail |-> tail], 0, Len(data)).ds)

\* an Extractor and a ListFilterExtractor of one event have each seen two
\* matches in the event and hold one value: the second match found its slot
\* taken
Wit_C4 ==
    /\ lastCall.fn = "a2_process_module_data"
    /\ \E ex \in SourceIds, lf \in SourceIds :
          /\ IsExtractor(ex) /\ IsListFilter(lf) /\ ex[1] = lf[1]
          /\ Source(ex).d.requiredCompletions = 1
          /\ matchCount[ex[1]][ex[2]] = 2
          /\ Cardinality(ValidSlots(Source(ex))) = 1
          /\ matchCount[lf[1]][lf[2]] = 2
          /\ Cardinality(ValidSlots(Source(lf))) = 1

\* C5: a2_begin_event is idempotent: calling it twice in a row gives the state
\* one call gives, and in that state every output element of every data
\* source of the event is invalid, every Extractor's completion counter is 0
\* and its filter match state is cleared.
Thm_C5 ==
    \A ei \in EventIndexes :
        LET once == a2_begin_event(dataSources[ei], ei)
            twice == a2_begin_event(once, ei)
        IN /\ twice = once
           /\ \A i \in 1..Len(once) :
                 /\ ValidSlots(once[i]) = {}
                 /\ once[i].hitCounts = dataSources[ei][i].hitCounts
                 /\ once[i].type = DataSource_Extractor =>
                       /\ once[i].d.currentCompletions = 0
                       /\ once[i].d.filter.completionMask = {}
           /\ lastCall.fn = "a2_begin_event" =>
                 \E e2 \in EventIndexes :
                    /\ Len(dataSources[e2]) > 0
                    /\ a2_begin_event(dataSources[e2], e2) = dataSources[e2]

\* a2_begin_event has just run on an event with an Extractor and a
\* ListFilterExtractor that both stored values before
Wit_C5 ==
    /\ lastCall.fn = "a2_begin_event"
    /\ \E ei \in EventIndexes :
          /\ \E i \in 1..Len(dataSources[ei]) :
                dataSources[ei][i].type = DataSource_Extractor
          /\ \E i \in 1..Len(dataSources[ei]) :
                dataSources[ei][i].type = DataSource_ListFilterExtractor
          /\ \A i \in 1..Len(dataSources[ei]) :
                /\ ValidSlots(dataSources[ei][i]) = {}
                /\ \E a \in 1..Len(dataSources[ei][i].hitCounts) :
                      dataSources[ei][i].hitCounts[a] > 0

----------------------------------------------------------------------------
(* Specification of the read cursor of the ListFilterExtractor: the driver
   hands one module buffer after the other to a graph with a single
   ListFilterExtractor, and the cursors of the call are recorded *)

CursorGraphs ==
    {[NoSources EXCEPT ![0] =
        <<make_datasource_listfilter_extractor(wc, reps, 0, 0, {NoAddedRandom})>>] :
        wc \in 1..2, reps \in 1..2}

InitCursor ==
    /\ dataSources \in CursorGraphs
    /\ operators = NoOperators
    /\ operatorRanks = NoOperators
    /\ conditionBits = {}
    /\ samplers = <<>>
    /\ lastCall = NoCall
    /\ matchCount = [ei \in EventIndexes |-> [i \in 1..Len(dataSources[ei]) |-> 0]]
    /\ history = NoOperators
    /\ passCount = 0
    /\ worker = NoWorker

\* a2_process_module_data, the ListFilterExtractor calls it makes recorded
ProcessModuleDataRecorded(ei, mi, data) ==
    \E tail \in TailsRead(dataSources[ei], mi, data) :
       LET r == a2_process_module_data(dataSources[ei], mi,
                                       [data |-> data, tail |-> tail])
       IN /\ dataSources' = [dataSources EXCEPT ![ei] = r.sources]
          /\ lastCall' = [fn |-> "a2_process_module_data", ei |-> ei,
                          info |-> r.calls]
          /\ UNCHANGED <<worker, operators, operatorRanks, conditionBits, samplers,
                         matchCount, history, passCount>>

NextCursor ==
    \E data \in Buffers : ProcessModuleDataRecorded(0, 0, data)

SpecCursor == InitCursor /\ [][NextCursor]_vars

\* C6: listfilter_extractor_process_module_data stops as soon as the input
\* buffer is exhausted: no repetition is combined from a cursor at or beyond
\* data + dataSize, whether or not the repetitions match, and the returned
\* cursor is data + wordCount * (repetitions processed) and never exceeds
\* data + dataSize.
Cex_C6 ==
    \A c \in 1..Len(lastCall.info) :
        LET call == lastCall.info[c]
            wordCount == dataSources[0][call.srcIdx + 1].d.listFilter.wordCount
        IN /\ \A k \in 1..Len(call.combinedAt) :
                 call.combinedAt[k] < call.data + call.dataSize
           /\ call.returned = call.data + wordCount * Len(call.combinedAt)
           /\ call.returned <= call.data + call.dataSize

----------------------------------------------------------------------------
(* Specification of the operator chain: an Extractor feeds a Calibration, the
   Calibration feeds an Aggregate_Sum.  The two operators lie in the array in
   either order and one of them may carry a condition bit. *)

ConditionBitIndexes == 0..(NumConditionBits - 1)

\* input limits of the Extractor output: [0, 2^dataBits)
ChainInLower == 0
ChainInUpper == Pow2(get_extract_bits_D(MultiWordFilter(1))) * Den
\* the unit range of the Calibration
ChainUnitMin == Den
ChainUnitMax == ChainUnitMin + 2 * (ChainInUpper - ChainInLower)

ChainSize == get_address_count_ex(make_extractor(MultiWordFilter(1), 1, 0, {NoAddedRandom}))

ChainCalibration ==
    make_calibration(Pipe("ds", 0), ChainSize, ChainInLower, ChainInUpper,
                     ChainUnitMin, ChainUnitMax)

ChainSum(calIdx) ==
    make_aggregate_sum(Pipe("op", calIdx), ChainSize, ChainUnitMin, ChainUnitMax,
                       [min |-> ChainUnitMin, max |-> ChainUnitMax])

Gated(op, conditionIndex) == [op EXCEPT !.conditionIndex = conditionIndex]

\* [ops, ranks] of the chain: sorted by rank or not, gateCal and gateSum are
\* the condition indexes of the two operators
ChainLayout(sorted, gateCal, gateSum) ==
    IF sorted
    THEN [ops |-> <<Gated(ChainCalibration, gateCal), Gated(ChainSum(0), gateSum)>>,
          ranks |-> <<1, 2>>]
    ELSE [ops |-> <<Gated(ChainSum(1), gateSum), Gated(ChainCalibration, gateCal)>>,
          ranks |-> <<2, 1>>]

ChainLayouts ==
    {ChainLayout(sorted, g[1], g[2]) :
        sorted \in BOOLEAN,
        g \in {<<NoCondition, NoCondition>>, <<0, NoCondition>>, <<NoCondition, 0>>}}

Init ==
    /\ dataSources = [NoSources EXCEPT
                        ![0] = <<make_datasource_extractor(1, 1, 0, 0, {NoAddedRandom})>>]
    /\ \E layout \in ChainLayouts :
          /\ operators = [NoOperators EXCEPT ![0] = layout.ops]
          /\ operatorRanks = [NoOperators EXCEPT ![0] = layout.ranks]
    /\ conditionBits = {}
    /\ samplers = <<>>
    /\ lastCall = NoCall
    /\ matchCount = [ei \in EventIndexes |-> [i \in 1..Len(dataSources[ei]) |-> 0]]
    /\ history = [ei \in EventIndexes |-> [i \in 1..Len(operators[ei]) |-> <<>>]]
    /\ passCount = 0
    /\ worker = NoWorker

Next ==
    \/ \E ei \in EventIndexes : EventBegin(ei)
    \/ \E ei \in EventIndexes : \E mi \in BoundModules(ei), data \in OneWordBuffers :
          EventData(ei, mi, data)
    \/ \E ei \in EventIndexes : EndEvent(ei)
    \/ \E bit \in ConditionBitIndexes, value \in BOOLEAN : SetCondition(bit, value)

Spec == Init /\ [][Next]_vars

----------------------------------------------------------------------------
(* Claims about a2_end_event, checked under Spec *)

\* the operators (C index) stepped by the last pass, in the order of the steps
SteppedOps == [k \in 1..Len(lastCall.info) |-> lastCall.info[k].op]

\* the steps of the last pass respect the ranks: no operator is stepped
\* before one of strictly lower rank
RankOrderKept(ei) ==
    \A j, k \in 1..Len(SteppedOps) :
        operatorRanks[ei][SteppedOps[j] + 1] < operatorRanks[ei][SteppedOps[k] + 1]
            => j < k

\* every operator of the event was stepped once by the last pass
AllStepped(ei) ==
    /\ Len(SteppedOps) = Len(operators[ei])
    /\ \A i \in 1..Len(operators[ei]) : \E k \in 1..Len(SteppedOps) : SteppedOps[k] = i - 1

\* the operators lie in the array in ascending rank order
SortedByRank(ei) ==
    \A i, j \in 1..Len(operatorRanks[ei]) :
        i < j => operatorRanks[ei][i] <= operatorRanks[ei][j]

RECURSIVE SumOfValid(_, _)
SumOfValid(vec, i) ==
    IF i > Len(vec) THEN 0
    ELSE (IF vec[i].valid THEN vec[i].v ELSE 0) + SumOfValid(vec, i + 1)

\* the sum of the calibrated outputs of the Extractor of the chain
ChainExpected(ei) ==
    LET out == dataSources[ei][1].output
        calibrated == [a \in 1..Len(out) |->
                          IF out[a].valid
                          THEN Param(ChainUnitMin + 2 * (out[a].v - ChainInLower))
                          ELSE Invalid]
    IN IF \E a \in 1..Len(out) : out[a].valid
       THEN Param(SumOfValid(calibrated, 1))
       ELSE Invalid

\* the output of the Aggregate_Sum of the chain
ChainResult(ei) ==
    LET i == CHOOSE i \in 1..Len(operators[ei]) :
                 operators[ei][i].type = Operator_Aggregate_Sum
    IN operators[ei][i].outputs[1]

ChainPassDone(ei) ==
    /\ lastCall.fn = "a2_end_event"
    /\ lastCall.ei = ei
    /\ Len(operators[ei]) > 0

\* C1 as stated: after a2_end_event the steps of the pass are in ascending
\* rank order whatever the layout of the array, and a pass that stepped the
\* whole chain leaves the sum of the calibrated Extractor outputs in the
\* output of the Aggregate_Sum
Cex_C1 ==
    \A ei \in EventIndexes :
        ChainPassDone(ei) =>
            /\ RankOrderKept(ei)
            /\ AllStepped(ei) => ChainResult(ei) = ChainExpected(ei)

\* C1: when the operators array is sorted by ascending rank, the steps of
\* the pass are in ascending rank order, and a pass that stepped the whole
\* chain leaves the sum of the calibrated Extractor outputs in the output of
\* the Aggregate_Sum
Thm_C1 ==
    \A ei \in EventIndexes :
        (ChainPassDone(ei) /\ SortedByRank(ei)) =>
            /\ RankOrderKept(ei)
            /\ AllStepped(ei) => ChainResult(ei) = ChainExpected(ei)

\* a pass over the sorted chain that summed two calibrated values
Wit_C1 ==
    /\ ChainPassDone(0)
    /\ SortedByRank(0)
    /\ AllStepped(0)
    /\ \A a \in 1..Len(dataSources[0][1].output) : dataSources[0][1].output[a].valid
    /\ ChainResult(0).valid
    /\ ChainResult(0).v > ChainUnitMax

----------------------------------------------------------------------------
(* Specification of KeepPrevious: an Extractor feeds two KeepPrevious
   operators, one with keepValid = false and one with keepValid = true *)

KeepSize == get_address_count_ex(make_extractor(MultiWordFilter(1), 1, 0, {NoAddedRandom}))

InitKeep ==
    /\ dataSources = [NoSources EXCEPT
                        ![0] = <<make_datasource_extractor(1, 1, 0, 0, {NoAddedRandom})>>]
    /\ operators = [NoOperators EXCEPT
                        ![0] = <<make_keep_previous(Pipe("ds", 0), KeepSize, FALSE),
                                 make_keep_previous(Pipe("ds", 0), KeepSize, TRUE)>>]
    /\ operatorRanks = [NoOperators EXCEPT ![0] = <<1, 1>>]
    /\ conditionBits = {}
    /\ samplers = <<>>
    /\ lastCall = NoCall
    /\ matchCount = [ei \in EventIndexes |-> [i \in 1..Len(dataSources[ei]) |-> 0]]
    /\ history = [ei \in EventIndexes |-> [i \in 1..Len(operators[ei]) |-> <<>>]]
    /\ passCount = 0
    /\ worker = NoWorker

NextKeep ==
    \/ \E ei \in EventIndexes : EventBegin(ei)
    \/ \E ei \in EventIndexes : \E mi \in BoundModules(ei), data \in OneWordBuffers :
          EventData(ei, mi, data)
    \/ \E ei \in EventIndexes : EndEvent(ei)

SpecKeep == InitKeep /\ [][NextKeep]_vars

\* the steps of the inputs hist[1..n-1] at which element idx was valid
ValidBefore(hist, n, idx) == {m \in 1..(n - 1) : hist[m][idx].valid}

Max(S) == CHOOSE x \in S : \A y \in S : y <= x

\* what the claim says the output element idx of step n is
KeepPreviousAsClaimed(keepValid, hist, n, idx) ==
    IF keepValid
    THEN IF ValidBefore(hist, n, idx) = {} THEN Invalid
         ELSE hist[Max(ValidBefore(hist, n, idx))][idx]
    ELSE IF n = 1 THEN Invalid ELSE hist[n - 1][idx]

\* C7: the stored value of a KeepPrevious is invalid before its first step;
\* after its n-th step the output is, element for element, the input of step
\* n-1 (keepValid = false) or the most recent valid input of the steps before
\* n (keepValid = true), invalid if there is none
Thm_C7 ==
    \A ei \in EventIndexes : \A i \in 1..Len(operators[ei]) :
        LET op == operators[ei][i]
            hist == history[ei][i]
            n == Len(hist)
        IN op.type = Operator_KeepPrevious =>
              IF n = 0
              THEN /\ \A idx \in 1..Len(op.d.previousInput) : ~op.d.previousInput[idx].valid
                   /\ \A idx \in 1..Len(op.outputs) : ~op.outputs[idx].valid
              ELSE \A idx \in 1..Len(op.outputs) :
                       op.outputs[idx] = KeepPreviousAsClaimed(op.d.keepValid, hist, n, idx)

\* after three steps on the inputs valid, invalid, valid at some element the
\* operator with keepValid shows the first input and the other one the
\* invalid second input
Wit_C7 ==
    /\ lastCall.fn = "a2_end_event"
    /\ Len(history[0][1]) = 3
    /\ \E idx \in 1..KeepSize :
          /\ history[0][1][1][idx].valid
          /\ ~history[0][1][2][idx].valid
          /\ history[0][1][3][idx].valid
          /\ history[0][1][3][idx] # history[0][1][1][idx]
          /\ ~operators[0][1].outputs[idx].valid
          /\ operators[0][2].outputs[idx] = history[0][2][1][idx]

----------------------------------------------------------------------------
(* Specification of the rate monitors: event 0 has a FlowRate monitor on the
   whole output of its Extractor and a PrecalculatedRate monitor on one
   element, event 1 a FlowRate monitor on one element of its Extractor *)

RateSize == get_address_count_ex(make_extractor(MultiWordFilter(1), 1, 0, {NoAddedRandom}))

InitRate ==
    /\ dataSources = [ei \in EventIndexes |->
                        IF ei <= 1
                        THEN <<make_datasource_extractor(1, 1, 0, 0, {NoAddedRandom})>>
                        ELSE <<>>]
    /\ operators = [ei \in EventIndexes |->
          IF ei = 0
          THEN <<make_rate_monitor(Operator_RateMonitor_FlowRate, <<Pipe("ds", 0)>>,
                                   <<NoParamIndex>>, [k \in 1..RateSize |-> k]),
                 make_rate_monitor(Operator_RateMonitor_PrecalculatedRate,
                                   <<Pipe("ds", 0)>>, <<0>>, <<RateSize + 1>>)>>
          ELSE IF ei = 1
          THEN <<make_rate_monitor(Operator_RateMonitor_FlowRate, <<Pipe("ds", 0)>>,
                                   <<1>>, <<RateSize + 2>>)>>
          ELSE <<>>]
    /\ operatorRanks = [ei \in EventIndexes |-> [i \in 1..Len(operators[ei]) |-> 1]]
    /\ conditionBits = {}
    /\ samplers = [id \in 1..(RateSize + 2) |-> NewSampler]
    /\ lastCall = NoCall
    /\ matchCount = [ei \in EventIndexes |-> [i \in 1..Len(dataSources[ei]) |-> 0]]
    /\ history = [ei \in EventIndexes |-> [i \in 1..Len(operators[ei]) |-> <<>>]]
    /\ passCount = 0
    /\ worker = NoWorker

NextRate ==
    \/ \E ei \in EventIndexes : EventBegin(ei)
    \/ \E ei \in EventIndexes : \E mi \in BoundModules(ei), data \in OneWordBuffers :
          EventData(ei, mi, data)
    \/ \E ei \in EventIndexes : EndEvent(ei)
    \/ Timetick

SpecRate == InitRate /\ [][NextRate]_vars

IsFlowRate(op) == op.type = Operator_RateMonitor_FlowRate

\* the sampler ids of the FlowRate monitors
FlowSamplers ==
    {id \in 1..Len(samplers) :
        \E ei \in EventIndexes : \E i \in 1..Len(operators[ei]) :
            /\ IsFlowRate(operators[ei][i])
            /\ \E k \in 1..Len(operators[ei][i].d.samplers) :
                  operators[ei][i].d.samplers[k] = id}

\* the input element that hit count k of the FlowRate monitor op looks at
FlowInput(ei, op, k) ==
    LET in == dataSources[ei][op.inputs[1].idx + 1].output
        pi == op.d.input_param_indexes[1]
    IN IF pi = NoParamIndex THEN in[k] ELSE in[pi + 1]

\* C8: a step of a FlowRate monitor in a2_end_event calls no sampler and adds
\* one to the hit count of each monitored input element that is valid; a
\* sampler of a FlowRate monitor receives a sample only in a2_timetick, which
\* hands the hit count k of every FlowRate monitor of every event index to
\* its sampler k and touches nothing else
Thm_C8 ==
    [][/\ \A ei \in EventIndexes :
             (lastCall'.fn = "a2_end_event" /\ lastCall'.ei = ei
              /\ passCount' = passCount + 1) =>
                 /\ \A id \in FlowSamplers : samplers'[id] = samplers[id]
                 /\ \A i \in 1..Len(operators[ei]) :
                       IsFlowRate(operators[ei][i]) =>
                          \A k \in 1..Len(operators[ei][i].d.hitCounts) :
                             operators'[ei][i].d.hitCounts[k] =
                                operators[ei][i].d.hitCounts[k]
                                + (IF FlowInput(ei, operators[ei][i], k).valid
                                   THEN 1 ELSE 0)
       /\ (\E id \in FlowSamplers : samplers'[id] # samplers[id]) =>
             /\ lastCall'.fn = "a2_timetick"
             /\ operators' = operators
             /\ \A id \in 1..Len(samplers) :
                   id \notin FlowSamplers => samplers'[id] = samplers[id]
             /\ \A ei \in EventIndexes : \A i \in 1..Len(operators[ei]) :
                   IsFlowRate(operators[ei][i]) =>
                      \A k \in 1..Len(operators[ei][i].d.hitCounts) :
                         LET id == operators[ei][i].d.samplers[k]
                         IN /\ samplers'[id].samples = samplers[id].samples + 1
                            /\ samplers'[id].rates = samplers[id].rates
                            /\ samplers'[id].lastValue =
                                  Param(operators[ei][i].d.hitCounts[k])
       /\ (lastCall'.fn = "a2_timetick" /\ lastCall.fn # "a2_timetick") =>
             \A id \in FlowSamplers : samplers'[id].samples = samplers[id].samples + 1
      ]_vars

\* a2_timetick has handed hit counts gathered over two events of event 0
\* and one of event 1 to the samplers, and the sampler of the
\* PrecalculatedRate monitor has got rates and no sample
Wit_C8 ==
    /\ lastCall.fn = "a2_timetick"
    /\ samplers[1].lastValue = Param(2)
    /\ samplers[2].lastValue = Param(1)
    /\ samplers[RateSize + 2].lastValue = Param(1)
    /\ samplers[RateSize + 1].samples = 0
    /\ samplers[RateSize + 1].rates >= 2
    /\ operators[0][1].d.hitCounts = <<2, 1>>

----------------------------------------------------------------------------
(* Specification of the export sinks: an Extractor feeds an export sink, an
   ExportSinkFull or an ExportSinkSparse with a condition input, and a
   Calibration that lies behind the sink in the array.  The sink compresses
   or not. *)

ExportSize == get_address_count_ex(make_extractor(MultiWordFilter(1), 1, 0, {NoAddedRandom}))

ExportOps(type, compressionLevel) ==
    <<IF type = Operator_ExportSinkFull
      THEN make_export_sink(type, compressionLevel, <<Pipe("ds", 0)>>, NoCondition)
      ELSE make_export_sink(type, compressionLevel, <<Pipe("ds", 0), Pipe("ds", 0)>>, 0),
      make_calibration(Pipe("ds", 0), ExportSize, ChainInLower, ChainInUpper,
                       ChainUnitMin, ChainUnitMax)>>

InitExport ==
    /\ dataSources = [NoSources EXCEPT
                        ![0] = <<make_datasource_extractor(1, 1, 0, 0, {NoAddedRandom})>>]
    /\ \E type \in {Operator_ExportSinkFull, Operator_ExportSinkSparse},
          compressionLevel \in 0..1 :
          operators = [NoOperators EXCEPT ![0] = ExportOps(type, compressionLevel)]
    /\ operatorRanks = [NoOperators EXCEPT ![0] = <<1, 1>>]
    /\ conditionBits = {}
    /\ samplers = <<>>
    /\ lastCall = NoCall
    /\ matchCount = [ei \in EventIndexes |-> [i \in 1..Len(dataSources[ei]) |-> 0]]
    /\ history = [ei \in EventIndexes |-> [i \in 1..Len(operators[ei]) |-> <<>>]]
    /\ passCount = 0
    /\ worker = NoWorker

\* the sinks (C index) of event 0
ExportSinks == {i \in 0..(Len(operators[0]) - 1) : IsExportSink(operators[0][i + 1])}

NextExport ==
    \/ \E failing \in SUBSET ExportSinks : BeginRun(failing)
    \/ \E ei \in EventIndexes : Running /\ EventBegin(ei)
    \/ \E ei \in EventIndexes : \E mi \in BoundModules(ei), data \in OneWordBuffers :
          EventData(ei, mi, data)
    \/ \E ei \in EventIndexes : EndEvent(ei)
    \/ EndRun

SpecExport == InitExport /\ [][NextExport]_vars

\* opening the file or a write of the sink has failed in this run
Latched(op) == op.d.ostream = "failed" \/ op.d.z_ostream = "failed"

\* C9: once opening the file or a write of an export sink has failed, no
\* later step of the run makes a write attempt or changes bytesWritten or
\* eventsWritten; the failure is in the last-error string of the sink; and a
\* pass in which a sink fails or stays failed still steps every operator
Thm_C9 ==
    [][\A ei \in EventIndexes : \A i \in 1..Len(operators[ei]) :
          LET op == operators[ei][i]
              after == operators'[ei][i]
          IN IsExportSink(op) =>
                /\ (Latched(op) /\ lastCall'.fn \notin {"a2_begin_run", "a2_end_run"}) =>
                      /\ after.d.writeCalls = op.d.writeCalls
                      /\ after.d.bytesWritten = op.d.bytesWritten
                      /\ after.d.eventsWritten = op.d.eventsWritten
                      /\ Latched(after)
                /\ (~Latched(op) /\ Latched(after)) =>
                      IF lastCall'.fn = "a2_begin_run"
                      THEN after.d.lastError = "File Export: Error opening output file"
                      ELSE /\ lastCall'.fn = "a2_end_event"
                           /\ after.d.lastError = "Error writing to output file"
                           /\ after.d.eventsWritten = op.d.eventsWritten
                /\ (Latched(after) /\ lastCall'.fn = "a2_end_event"
                    /\ passCount' = passCount + 1) =>
                      \A j \in 1..Len(operators[ei]) :
                          \E k \in 1..Len(lastCall'.info) : lastCall'.info[k].op = j - 1
      ]_vars

\* the sink without compression wrote one event, failed in a write of the
\* next pass and was stepped once more with its stream failed, in a pass
\* that also stepped the Calibration behind it
Wit_C9 ==
    /\ lastCall.fn = "a2_end_event"
    /\ \E i \in 1..Len(operators[0]) :
          /\ IsExportSink(operators[0][i])
          /\ operators[0][i].d.compressionLevel = 0
          /\ history[0][i] = <<"good", "good", "failed">>
          /\ operators[0][i].d.eventsWritten = 1
          /\ operators[0][i].d.lastError = "Error writing to output file"
    /\ \E k \in 1..Len(lastCall.info) :
          /\ operators[0][lastCall.info[k].op + 1].type = Operator_Calibration
          /\ \E a \in 1..ExportSize : operators[0][lastCall.info[k].op + 1].outputs[a].valid

----------------------------------------------------------------------------
(* Specification of write_indexed_parameter_vector: a parameter vector is
   drawn, the writer is applied to it *)

ParamValues == {Invalid} \cup {Param(x * Den) : x \in 0..1}

ParamVectors == SeqsUpTo(ParamValues, MaxVecLen)

InitSparse ==
    /\ dataSources = NoSources
    /\ operators = NoOperators
    /\ operatorRanks = NoOperators
    /\ conditionBits = {}
    /\ samplers = <<>>
    /\ \E vec \in ParamVectors : lastCall = [NoCall EXCEPT !.info = vec]
    /\ matchCount = [ei \in EventIndexes |-> <<>>]
    /\ history = NoOperators
    /\ passCount = 0
    /\ worker = NoWorker

WriteIndexedParameterVector ==
    /\ lastCall.fn = "none"
    /\ lastCall' = [fn |-> "write_indexed_parameter_vector", ei |-> 0,
                    info |-> [vec |-> lastCall.info,
                              out |-> indexed_stream(
                                         write_indexed_parameter_vector(lastCall.info))]]
    /\ UNCHANGED <<worker, dataSources, operators, operatorRanks, conditionBits, samplers,
                   matchCount, history, passCount>>

NextSparse == WriteIndexedParameterVector

SpecSparse == InitSparse /\ [][NextSparse]_vars

\* the reader of the sparse format: the count, that many indices, that many
\* values, put into an all-invalid vector of the given size
DecodeIndexed(out, size) ==
    LET count == out[1]
    IN [i \in 1..size |->
           IF \E k \in 1..count : out[1 + k] = i - 1
           THEN out[1 + count + (CHOOSE k \in 1..count : out[1 + k] = i - 1)]
           ELSE Invalid]

\* C10: for a vector of at most 65535 elements the writer puts out the
\* number of valid elements, then their indices in ascending order, then
\* their values in the same order, and reading the record into an
\* all-invalid vector of the same size gives the vector back
Thm_C10 ==
    lastCall.fn = "write_indexed_parameter_vector" =>
        LET vec == lastCall.info.vec
            out == lastCall.info.out
            count == out[1]
        IN Len(vec) <= U16Max =>
              /\ count = Cardinality({i \in 1..Len(vec) : vec[i].valid})
              /\ Len(out) = 1 + 2 * count
              /\ \A k \in 1..count :
                    /\ out[1 + k] \in 0..(Len(vec) - 1)
                    /\ vec[out[1 + k] + 1].valid
                    /\ out[1 + count + k] = vec[out[1 + k] + 1]
              /\ \A j, k \in 1..count : j < k => out[1 + j] < out[1 + k]
              /\ DecodeIndexed(out, Len(vec)) = vec

\* a vector with a gap between two valid elements of different value has
\* been written
Wit_C10 ==
    /\ lastCall.fn = "write_indexed_parameter_vector"
    /\ Len(lastCall.info.vec) = MaxVecLen
    /\ lastCall.info.vec[1].valid
    /\ ~lastCall.info.vec[2].valid
    /\ lastCall.info.vec[3].valid
    /\ lastCall.info.vec[3] # lastCall.info.vec[1]
    /\ lastCall.info.out[1] >= 2

\* ---------------------------------------------------------------------
\* Histograms: H1D, H2D, fill_h1d, fill_h2d
\* ---------------------------------------------------------------------

MaxBins == 3
MaxFills == 2

\* the number of significant bits of a double of the model (53 in the build)
FloatBits == 3

\* results of double operations are kept in units of 1 / FloatGrid
FloatGrid == Den * 2^(FloatBits + 2)

\* the nearest integer to a / b for a >= 0, b > 0, a tie going to the even
\* neighbour
RoundDiv(a, b) ==
    LET q == a \div b
        r == a % b
    IN IF 2 * r < b THEN q
       ELSE IF 2 * r > b THEN q + 1
       ELSE IF q % 2 = 0 THEN q ELSE q + 1

\* the double nearest to a / b (a >= 0, b > 0), in units of 1 / FloatGrid:
\* the quotient rounded to FloatBits significant bits, ties to even
RoundToDouble(a, b) ==
    LET n == a * FloatGrid
    IN IF n < b THEN RoundDiv(n, b)
       ELSE LET e == CHOOSE k \in 0..n : 2^k * b <= n /\ n < 2^(k + 1) * b
                s == e - FloatBits + 1
            IN IF s <= 0 THEN RoundDiv(n, b) ELSE RoundDiv(n, b * 2^s) * 2^s

\* binFactor = binCount / binning.range, a stored double
binning_factor(binCount, range) == RoundToDouble(binCount * Den, range)

\* (x - binMin) * binFactor: a double product of a value in units of 1 / Den
\* and a factor in units of 1 / FloatGrid
get_bin_unchecked(x, binMin, binFactor) ==
    RoundToDouble((x - binMin) * binFactor, Den * FloatGrid)

\* a double to s32: truncation
static_cast_s32(bin) ==
    IF bin >= 0 THEN bin \div FloatGrid ELSE -((-bin) \div FloatGrid)

\* an empty histogram of the given axis; beyond lists the indexes of
\* increments that fell outside the bin array
make_h1d(min, range, binCount) ==
    [binning |-> [min |-> min, range |-> range],
     size |-> binCount,
     binningFactor |-> binning_factor(binCount, range),
     data |-> [i \in 1..binCount |-> 0],
     entryCount |-> 0,
     underflow |-> 0,
     overflow |-> 0,
     beyond |-> <<>>]

\* data[bin]++ of a C array of size elements
increment_bin(histo, bin) ==
    IF bin \in 0..(Len(histo.data) - 1)
    THEN [histo EXCEPT !.data[bin + 1] = @ + 1]
    ELSE [histo EXCEPT !.beyond = Append(@, bin)]

\* a comparison with NaN is false, so NaN falls through to the isnan branch
fill_h1d(histo, x) ==
    IF x.valid /\ x.v < histo.binning.min
    THEN [histo EXCEPT !.underflow = @ + 1]
    ELSE IF x.valid /\ x.v >= histo.binning.min + histo.binning.range
    THEN [histo EXCEPT !.overflow = @ + 1]
    ELSE IF ~x.valid
    THEN histo
    ELSE LET bin == static_cast_s32(
                        get_bin_unchecked(x.v, histo.binning.min, histo.binningFactor))
         IN [increment_bin(histo, bin) EXCEPT !.entryCount = @ + 1]

\* ---------------------------------------------------------------------
\* SpecH1D: single H1D histograms of every small axis are filled with
\* values below, inside, at the edges of and above the axis, and with NaN
\* ---------------------------------------------------------------------

HistoMins == {-Den, 0}
\* axis lengths that are doubles of the model: with these every x - min and
\* min + range of a fill inside the axis is exact
HistoRanges == 1..(2^FloatBits - 1)
HistoBinCounts == 1..MaxBins
FillValues(min, range) ==
    {Param(v) : v \in (min - 1)..(min + range + 1)} \cup {Invalid}

InitH1D ==
    /\ dataSources = NoSources
    /\ operators = NoOperators
    /\ operatorRanks = NoOperators
    /\ conditionBits = {}
    /\ samplers = <<>>
    /\ \E min \in HistoMins, range \in HistoRanges, binCount \in HistoBinCounts :
          lastCall = [NoCall EXCEPT !.info = [histo |-> make_h1d(min, range, binCount)]]
    /\ matchCount = [ei \in EventIndexes |-> <<>>]
    /\ history = NoOperators
    /\ passCount = 0
    /\ worker = NoWorker

FillH1D(x) ==
    /\ passCount < MaxFills
    /\ lastCall' = [fn |-> "fill_h1d", ei |-> 0,
                    info |-> [before |-> lastCall.info.histo,
                              x |-> x,
                              histo |-> fill_h1d(lastCall.info.histo, x)]]
    /\ passCount' = passCount + 1
    /\ UNCHANGED <<worker, dataSources, operators, operatorRanks, conditionBits, samplers,
                   matchCount, history>>

NextH1D ==
    \E x \in FillValues(lastCall.info.histo.binning.min,
                        lastCall.info.histo.binning.range) : FillH1D(x)

SpecH1D == InitH1D /\ [][NextH1D]_vars

\* floor((x - min) * binCount / range) in exact arithmetic
ExactBin(histo, x) == ((x.v - histo.binning.min) * histo.size) \div histo.binning.range

\* the histogram differs from the one before in nothing but the named
\* counter, which is one higher
OnlyCounter(before, after, counter) ==
    after = [before EXCEPT ![counter] = @ + 1]

\* C11: a fill below min increments only underflow, a fill at or above
\* min + range only overflow, NaN changes nothing, and any other value
\* increments exactly the bin floor((x - min) * binCount / range), which
\* lies in [0, binCount), and entryCount
Cex_C11 ==
    lastCall.fn = "fill_h1d" =>
        LET before == lastCall.info.before
            after == lastCall.info.histo
            x == lastCall.info.x
            min == before.binning.min
            range == before.binning.range
        IN IF ~x.valid THEN after = before
           ELSE IF x.v < min THEN OnlyCounter(before, after, "underflow")
           ELSE IF x.v >= min + range THEN OnlyCounter(before, after, "overflow")
           ELSE /\ ExactBin(before, x) \in 0..(before.size - 1)
                /\ after = [before EXCEPT !.data[ExactBin(before, x) + 1] = @ + 1,
                                          !.entryCount = @ + 1]

\* ---------------------------------------------------------------------
\* H2D
\* ---------------------------------------------------------------------

XAxis == 1
YAxis == 2

\* an empty two-dimensional histogram; an axis is [min, range, binCount]
make_h2d(xAxis, yAxis) ==
    [binnings |-> <<[min |-> xAxis.min, range |-> xAxis.range],
                    [min |-> yAxis.min, range |-> yAxis.range]>>,
     binCounts |-> <<xAxis.binCount, yAxis.binCount>>,
     binningFactors |-> <<binning_factor(xAxis.binCount, xAxis.range),
                          binning_factor(yAxis.binCount, yAxis.range)>>,
     size |-> xAxis.binCount * yAxis.binCount,
     data |-> [i \in 1..(xAxis.binCount * yAxis.binCount) |-> 0],
     entryCount |-> 0,
     underflow |-> 0,
     overflow |-> 0,
     beyond |-> <<>>]

\* the four range tests come before the isnan test, and a comparison with
\* NaN is false
fill_h2d(histo, x, y) ==
    LET xb == histo.binnings[XAxis]
        yb == histo.binnings[YAxis]
    IN IF x.valid /\ x.v < xb.min
       THEN [histo EXCEPT !.underflow = @ + 1]
       ELSE IF x.valid /\ x.v >= xb.min + xb.range
       THEN [histo EXCEPT !.overflow = @ + 1]
       ELSE IF y.valid /\ y.v < yb.min
       THEN [histo EXCEPT !.underflow = @ + 1]
       ELSE IF y.valid /\ y.v >= yb.min + yb.range
       THEN [histo EXCEPT !.overflow = @ + 1]
       ELSE IF ~x.valid \/ ~y.valid
       THEN histo
       ELSE LET xBin == static_cast_s32(
                            get_bin_unchecked(x.v, xb.min, histo.binningFactors[XAxis]))
                yBin == static_cast_s32(
                            get_bin_unchecked(y.v, yb.min, histo.binningFactors[YAxis]))
                linearBin == yBin * histo.binCounts[XAxis] + xBin
            IN [increment_bin(histo, linearBin) EXCEPT !.entryCount = @ + 1]

\* ---------------------------------------------------------------------
\* SpecH2D: H2D histograms of small axes are filled with pairs whose
\* coordinates are below, inside and above their axis, or NaN
\* ---------------------------------------------------------------------

H2DAxes ==
    {[min |-> min, range |-> range, binCount |-> binCount] :
        min \in {0}, range \in {Den, 2^FloatBits - 1}, binCount \in 1..(MaxBins - 1)}

InitH2D ==
    /\ dataSources = NoSources
    /\ operators = NoOperators
    /\ operatorRanks = NoOperators
    /\ conditionBits = {}
    /\ samplers = <<>>
    /\ \E xAxis \in H2DAxes, yAxis \in H2DAxes :
          lastCall = [NoCall EXCEPT !.info = [histo |-> make_h2d(xAxis, yAxis)]]
    /\ matchCount = [ei \in EventIndexes |-> <<>>]
    /\ history = NoOperators
    /\ passCount = 0
    /\ worker = NoWorker

FillH2D(x, y) ==
    /\ passCount < MaxFills
    /\ lastCall' = [fn |-> "fill_h2d", ei |-> 0,
                    info |-> [before |-> lastCall.info.histo,
                              x |-> x,
                              y |-> y,
                              histo |-> fill_h2d(lastCall.info.histo, x, y)]]
    /\ passCount' = passCount + 1
    /\ UNCHANGED <<worker, dataSources, operators, operatorRanks, conditionBits, samplers,
                   matchCount, history>>

NextH2D ==
    \E x \in FillValues(lastCall.info.histo.binnings[XAxis].min,
                        lastCall.info.histo.binnings[XAxis].range),
       y \in FillValues(lastCall.info.histo.binnings[YAxis].min,
                        lastCall.info.histo.binnings[YAxis].range) : FillH2D(x, y)

SpecH2D == InitH2D /\ [][NextH2D]_vars

\* the coordinate is a number inside the axis
InsideAxis(histo, axis, v) ==
    /\ v.valid
    /\ v.v >= histo.binnings[axis].min
    /\ v.v < histo.binnings[axis].min + histo.binnings[axis].range

\* floor((v - min) * binCount / range) of the axis in exact arithmetic
ExactAxisBin(histo, axis, v) ==
    ((v.v - histo.binnings[axis].min) * histo.binCounts[axis])
        \div histo.binnings[axis].range

\* C12: a fill with x or y NaN changes no bin and no counter of the H2D,
\* whatever the other coordinate is; a pair inside both axes increments
\* exactly the bin yBin * xBinCount + xBin and entryCount
Cex_C12 ==
    lastCall.fn = "fill_h2d" =>
        LET before == lastCall.info.before
            after == lastCall.info.histo
            x == lastCall.info.x
            y == lastCall.info.y
            linearBin == ExactAxisBin(before, YAxis, y) * before.binCounts[XAxis]
                            + ExactAxisBin(before, XAxis, x)
        IN /\ (~x.valid \/ ~y.valid) => after = before
           /\ (InsideAxis(before, XAxis, x) /\ InsideAxis(before, YAxis, y)) =>
                 after = [before EXCEPT !.data[linearBin + 1] = @ + 1,
                                        !.entryCount = @ + 1]

\* ---------------------------------------------------------------------
\* Step functions applied to input vectors: the inputs
\* ---------------------------------------------------------------------

MaxStepLen == 3
MaxStepValue == 3

StepValues == {Invalid} \cup {Param(x) : x \in 0..MaxStepValue}

StepVectors == SeqsUpTo(StepValues, MaxStepLen) \ {<<>>}

\* threshold windows, empty ones (max < min) included
StepThresholds == {[min |-> lo, max |-> hi] : lo, hi \in 0..MaxStepValue}

\* a step function is applied to the vector a (and b, for two inputs)
InitStep ==
    /\ dataSources = NoSources
    /\ operators = NoOperators
    /\ operatorRanks = NoOperators
    /\ conditionBits = {}
    /\ samplers = <<>>
    /\ \E a \in StepVectors : lastCall = [NoCall EXCEPT !.info = [a |-> a]]
    /\ matchCount = [ei \in EventIndexes |-> <<>>]
    /\ history = NoOperators
    /\ passCount = 0
    /\ worker = NoWorker

\* ---------------------------------------------------------------------
\* RangeFilter
\* ---------------------------------------------------------------------

Operator_RangeFilter == "RangeFilter"

\* in_range(thresholds, value): the value is inside the window; a
\* comparison with NaN is false
in_range(thresholds, param) ==
    is_param_valid(param) /\ thresholds.min <= param.v /\ param.v < thresholds.max

\* make_range_filter(arena, input, thresholds, invert)
make_range_filter(input, size, inLower, inUpper, thresholds, invert) ==
    [make_operator(Operator_RangeFilter, <<input>>, size,
                   IF invert THEN inLower ELSE thresholds.min,
                   IF invert THEN inUpper ELSE thresholds.max)
        EXCEPT !.d = [thresholds |-> thresholds, invert |-> invert]]

\* a filter that never inverts
range_filter_step_not_inverting(op, in) ==
    [op EXCEPT !.outputs =
        [pi \in 1..Len(in) |->
            IF in_range(op.d.thresholds, in[pi]) THEN in[pi] ELSE invalid_param]]

\* range_filter_step
range_filter_step(op, in) ==
    IF op.d.invert
    THEN [op EXCEPT !.outputs =
            [pi \in 1..Len(in) |->
                IF ~in_range(op.d.thresholds, in[pi]) THEN in[pi] ELSE invalid_param]]
    ELSE [op EXCEPT !.outputs =
            [pi \in 1..Len(in) |->
                IF in_range(op.d.thresholds, in[pi]) THEN in[pi] ELSE invalid_param]]

\* ---------------------------------------------------------------------
\* SpecRange: one input vector goes through a RangeFilter and through the
\* inverted RangeFilter of the same window
\* ---------------------------------------------------------------------

RangeFilterStep(thresholds) ==
    /\ lastCall.fn = "none"
    /\ LET a == lastCall.info.a
           plain == make_range_filter(Pipe("ds", 0), Len(a), 0, MaxStepValue + 1,
                                      thresholds, FALSE)
           inverted == make_range_filter(Pipe("ds", 0), Len(a), 0, MaxStepValue + 1,
                                         thresholds, TRUE)
       IN lastCall' = [fn |-> "range_filter_step", ei |-> 0,
                       info |-> [a |-> a,
                                 thresholds |-> thresholds,
                                 out |-> range_filter_step(plain, a).outputs,
                                 outInverted |-> range_filter_step(inverted, a).outputs]]
    /\ UNCHANGED <<worker, dataSources, operators, operatorRanks, conditionBits, samplers,
                   matchCount, history, passCount>>

NextRange == \E thresholds \in StepThresholds : RangeFilterStep(thresholds)

SpecRange == InitStep /\ [][NextRange]_vars

\* every valid element of the output is the input element of its index
ValidOutputsAreInputs(out, in) ==
    /\ Len(out) = Len(in)
    /\ \A i \in 1..Len(out) : out[i].valid => out[i] = in[i]

\* C13 as stated: for every input vector, invalid elements included, the
\* inverted filter's output is valid at an index exactly when the plain
\* filter's output is invalid there, and valid outputs equal the input
Cex_C13 ==
    lastCall.fn = "range_filter_step" =>
        LET a == lastCall.info.a
            out == lastCall.info.out
            outInverted == lastCall.info.outInverted
        IN /\ \A i \in 1..Len(a) : outInverted[i].valid <=> ~out[i].valid
           /\ ValidOutputsAreInputs(out, a)
           /\ ValidOutputsAreInputs(outInverted, a)

\* C13: at every index whose input element is valid the inverted filter's
\* output is valid exactly when the plain filter's output is invalid; at an
\* index whose input element is invalid both outputs are invalid; every
\* valid output element equals the input element
Thm_C13 ==
    lastCall.fn = "range_filter_step" =>
        LET a == lastCall.info.a
            out == lastCall.info.out
            outInverted == lastCall.info.outInverted
        IN /\ \A i \in 1..Len(a) :
                 IF a[i].valid
                 THEN outInverted[i].valid <=> ~out[i].valid
                 ELSE ~outInverted[i].valid /\ ~out[i].valid
           /\ ValidOutputsAreInputs(out, a)
           /\ ValidOutputsAreInputs(outInverted, a)

\* a vector with an element inside the window, one outside and an invalid
\* one went through both filters
Wit_C13 ==
    /\ lastCall.fn = "range_filter_step"
    /\ \E i, j, k \in 1..Len(lastCall.info.a) :
          /\ lastCall.info.out[i].valid
          /\ lastCall.info.outInverted[j].valid
          /\ ~lastCall.info.a[k].valid

\* ---------------------------------------------------------------------
\* Aggregate Mean, Min and Max
\* ---------------------------------------------------------------------

Operator_Aggregate_Mean == "Aggregate_Mean"
Operator_Aggregate_Min == "Aggregate_Min"
Operator_Aggregate_Max == "Aggregate_Max"

\* make_aggregate_op(arena, input, operatorType, thresholds): a NaN
\* threshold becomes the input's lowest lower limit, or highest upper limit;
\* the output limits are left to the caller
make_aggregate_op(input, operatorType, inLower, inUpper, thresholds) ==
    [make_operator(operatorType, <<input>>, 1, 0, 0)
        EXCEPT !.d = [min |-> IF is_param_valid(thresholds.min)
                              THEN thresholds.min.v ELSE inLower,
                      max |-> IF is_param_valid(thresholds.max)
                              THEN thresholds.max.v ELSE inUpper]]

\* a count of all elements of the input, qualifying or not
calculate_sum_and_valid_count_of_all(input, thresholds) ==
    [sum |-> SumInside(input, thresholds, 1), validCount |-> Len(input)]

\* calculate_sum_and_valid_count(input, thresholds)
calculate_sum_and_valid_count(input, thresholds) ==
    [sum |-> SumInside(input, thresholds, 1),
     validCount |-> Cardinality({i \in 1..Len(input) :
                                    is_valid_and_inside(input[i], thresholds)})]

\* SumAndValidCount::mean()
mean(sv) == sv.sum \div sv.validCount

\* make_aggregate_mean(arena, input, thresholds) for an input of the given
\* size with the limits [inLower, inUpper) at every index
make_aggregate_mean(input, size, inLower, inUpper, thresholds) ==
    LET lo == IF inLower <= inUpper THEN inLower ELSE inUpper
        hi == IF inLower <= inUpper THEN inUpper ELSE inLower
    IN [make_aggregate_op(input, Operator_Aggregate_Mean, inLower, inUpper, thresholds)
           EXCEPT !.outputLowerLimits = <<(size * lo) \div size>>,
                  !.outputUpperLimits = <<(size * hi) \div size>>]

\* aggregate_mean_step
aggregate_mean_step(op, in) ==
    LET sv == calculate_sum_and_valid_count(in, op.d)
    IN [op EXCEPT !.outputs =
            <<IF sv.validCount # 0 THEN Param(mean(sv)) ELSE invalid_param>>]

\* ---------------------------------------------------------------------
\* SpecMean: Aggregate Mean over input vectors whose values are multiples
\* of MeanUnit, so that every mean of up to MaxStepLen + 1 elements is exact
\* ---------------------------------------------------------------------

RECURSIVE Factorial(_)
Factorial(n) == IF n <= 1 THEN 1 ELSE n * Factorial(n - 1)

MeanUnit == Factorial(MaxStepLen + 1)

MeanValues == {Invalid} \cup {Param(x * MeanUnit) : x \in 0..MaxStepValue}

\* [1, 2, 3, invalid, 5]
MeanExample ==
    <<Param(MeanUnit), Param(2 * MeanUnit), Param(3 * MeanUnit), Invalid,
      Param(5 * MeanUnit)>>

MeanVectors == (SeqsUpTo(MeanValues, MaxStepLen) \ {<<>>}) \cup {MeanExample}

\* the windows over the values, and no window: NaN at both ends
MeanThresholds ==
    {[min |-> Param(lo * MeanUnit), max |-> Param(hi * MeanUnit)] :
        lo, hi \in 0..MaxStepValue}
    \cup {[min |-> Invalid, max |-> Invalid]}

MeanInLower == 0
MeanInUpper == 8 * MeanUnit

InitMean ==
    /\ dataSources = NoSources
    /\ operators = NoOperators
    /\ operatorRanks = NoOperators
    /\ conditionBits = {}
    /\ samplers = <<>>
    /\ \E a \in MeanVectors : lastCall = [NoCall EXCEPT !.info = [a |-> a]]
    /\ matchCount = [ei \in EventIndexes |-> <<>>]
    /\ history = NoOperators
    /\ passCount = 0
    /\ worker = NoWorker

AggregateMeanStep(thresholds) ==
    /\ lastCall.fn = "none"
    /\ LET a == lastCall.info.a
           op == make_aggregate_mean(Pipe("ds", 0), Len(a), MeanInLower, MeanInUpper,
                                     thresholds)
       IN lastCall' = [fn |-> "aggregate_mean_step", ei |-> 0,
                       info |-> [a |-> a,
                                 thresholds |-> op.d,
                                 unbounded |-> ~thresholds.min.valid,
                                 out |-> aggregate_mean_step(op, a).outputs]]
    /\ UNCHANGED <<worker, dataSources, operators, operatorRanks, conditionBits, samplers,
                   matchCount, history, passCount>>

NextMean == \E thresholds \in MeanThresholds : AggregateMeanStep(thresholds)

SpecMean == InitMean /\ [][NextMean]_vars

\* the indexes of the elements that are valid and inside [min, max]
QualifyingIndexes(a, thresholds) ==
    {i \in 1..Len(a) : a[i].valid /\ thresholds.min <= a[i].v /\ a[i].v <= thresholds.max}

RECURSIVE SumAt(_, _)
SumAt(a, indexes) ==
    IF indexes = {} THEN 0
    ELSE LET i == CHOOSE j \in indexes : TRUE
         IN a[i].v + SumAt(a, indexes \ {i})

\* C14: the output of aggregate_mean_step is the sum of the elements that
\* are valid and inside the window divided by their number, and is invalid
\* when there is no such element; [1, 2, 3, invalid, 5] without a window
\* gives 11/4
Thm_C14 ==
    lastCall.fn = "aggregate_mean_step" =>
        LET a == lastCall.info.a
            q == QualifyingIndexes(a, lastCall.info.thresholds)
            out == lastCall.info.out
        IN /\ Len(out) = 1
           /\ out[1].valid <=> q # {}
           /\ out[1].valid => out[1].v * Cardinality(q) = SumAt(a, q)
           /\ (a = MeanExample /\ lastCall.info.unbounded) =>
                 out[1] = Param((11 * MeanUnit) \div 4)

\* the mean of [1, 2, 3, invalid, 5] without a window has been taken
Wit_C14 ==
    /\ lastCall.fn = "aggregate_mean_step"
    /\ lastCall.info.a = MeanExample
    /\ lastCall.info.unbounded
    /\ lastCall.info.out[1].valid
    /\ 4 * lastCall.info.out[1].v = 11 * MeanUnit

\* ---------------------------------------------------------------------
\* Aggregate Min and Max
\* ---------------------------------------------------------------------

\* std::numeric_limits<double>::max() and ::lowest(), beyond every value of
\* the model
DoubleMax == U32
DoubleLowest == -U32

\* std::min(a, b) is (b < a) ? b : a, and a comparison with NaN is false
std_min(a, b) == IF a.valid /\ b.valid /\ b.v < a.v THEN b ELSE a

\* std::max(a, b) is (a < b) ? b : a
std_max(a, b) == IF a.valid /\ b.valid /\ a.v < b.v THEN b ELSE a

\* make_aggregate_min(arena, input, thresholds)
make_aggregate_min(input, size, inLower, inUpper, thresholds) ==
    [make_aggregate_op(input, Operator_Aggregate_Min, inLower, inUpper, thresholds)
        EXCEPT !.outputLowerLimits = <<Min2(inLower, inUpper)>>,
               !.outputUpperLimits = <<IF inLower <= inUpper THEN inUpper ELSE inLower>>]

\* make_aggregate_max(arena, input, thresholds)
make_aggregate_max(input, size, inLower, inUpper, thresholds) ==
    [make_aggregate_op(input, Operator_Aggregate_Max, inLower, inUpper, thresholds)
        EXCEPT !.outputLowerLimits = <<Min2(inLower, inUpper)>>,
               !.outputUpperLimits = <<IF inLower <= inUpper THEN inUpper ELSE inLower>>]

\* the loop of aggregate_min_step: for a qualifying element and a result
\* that is still invalid, `double result = max()` declares a new variable
\* in the inner block and the result of the loop is left as it is
RECURSIVE aggregate_min_loop(_, _, _, _)
aggregate_min_loop(input, thresholds, result, i) ==
    IF i > Len(input) THEN result
    ELSE IF is_valid_and_inside(input[i], thresholds)
    THEN LET inner == IF ~is_param_valid(result) THEN Param(DoubleMax) ELSE result
         IN aggregate_min_loop(input, thresholds, std_min(result, input[i]), i + 1)
    ELSE aggregate_min_loop(input, thresholds, result, i + 1)

\* aggregate_min_step
aggregate_min_step(op, in) ==
    [op EXCEPT !.outputs = <<aggregate_min_loop(in, op.d, invalid_param, 1)>>]

\* the loop of aggregate_max_step
RECURSIVE aggregate_max_loop(_, _, _, _)
aggregate_max_loop(input, thresholds, result, i) ==
    IF i > Len(input) THEN result
    ELSE IF is_valid_and_inside(input[i], thresholds)
    THEN LET started == IF ~is_param_valid(result) THEN Param(DoubleLowest) ELSE result
         IN aggregate_max_loop(input, thresholds, std_max(started, input[i]), i + 1)
    ELSE aggregate_max_loop(input, thresholds, result, i + 1)

\* aggregate_max_step
aggregate_max_step(op, in) ==
    [op EXCEPT !.outputs = <<aggregate_max_loop(in, op.d, invalid_param, 1)>>]

\* ---------------------------------------------------------------------
\* SpecMinMax: Aggregate Min and Aggregate Max over the input vectors
\* ---------------------------------------------------------------------

\* the windows over the values, and no window: NaN at both ends
StepWindows ==
    {[min |-> Param(lo), max |-> Param(hi)] : lo, hi \in 0..MaxStepValue}
    \cup {[min |-> Invalid, max |-> Invalid]}

StepInLower == 0
StepInUpper == MaxStepValue + 1

AggregateMinStep(thresholds) ==
    /\ lastCall.fn = "none"
    /\ LET a == lastCall.info.a
           op == make_aggregate_min(Pipe("ds", 0), Len(a), StepInLower, StepInUpper,
                                    thresholds)
       IN lastCall' = [fn |-> "aggregate_min_step", ei |-> 0,
                       info |-> [a |-> a,
                                 thresholds |-> op.d,
                                 out |-> aggregate_min_step(op, a).outputs]]
    /\ UNCHANGED <<worker, dataSources, operators, operatorRanks, conditionBits, samplers,
                   matchCount, history, passCount>>

AggregateMaxStep(thresholds) ==
    /\ lastCall.fn = "none"
    /\ LET a == lastCall.info.a
           op == make_aggregate_max(Pipe("ds", 0), Len(a), StepInLower, StepInUpper,
                                    thresholds)
       IN lastCall' = [fn |-> "aggregate_max_step", ei |-> 0,
                       info |-> [a |-> a,
                                 thresholds |-> op.d,
                                 out |-> aggregate_max_step(op, a).outputs]]
    /\ UNCHANGED <<worker, dataSources, operators, operatorRanks, conditionBits, samplers,
                   matchCount, history, passCount>>

NextMinMax ==
    \E thresholds \in StepWindows :
        \/ AggregateMinStep(thresholds)
        \/ AggregateMaxStep(thresholds)

SpecMinMax == InitStep /\ [][NextMinMax]_vars

\* the values of the elements that are valid and inside the window
QualifyingValues(a, thresholds) ==
    {a[i].v : i \in QualifyingIndexes(a, thresholds)}

\* C15: aggregate_min_step outputs the smallest and aggregate_max_step the
\* largest of the elements that are valid and inside the window, and each
\* outputs invalid exactly when no element qualifies
Cex_C15 ==
    lastCall.fn \in {"aggregate_min_step", "aggregate_max_step"} =>
        LET q == QualifyingValues(lastCall.info.a, lastCall.info.thresholds)
            out == lastCall.info.out
        IN /\ Len(out) = 1
           /\ out[1].valid <=> q # {}
           /\ out[1].valid =>
                 /\ out[1].v \in q
                 /\ lastCall.fn = "aggregate_min_step" => \A v \in q : out[1].v <= v
                 /\ lastCall.fn = "aggregate_max_step" => \A v \in q : out[1].v >= v

\* ---------------------------------------------------------------------
\* Calibration_idx, Difference, BinaryEquation
\* ---------------------------------------------------------------------

Operator_Calibration_idx == "Calibration_idx"
Operator_Difference == "Difference"
Operator_Difference_idx == "Difference_idx"
Operator_BinaryEquation == "BinaryEquation"
Operator_BinaryEquation_idx == "BinaryEquation_idx"

\* make_calibration_idx(arena, input, inputIndex, unitMin, unitMax)
make_calibration_idx(input, inputIndex, inLower, inUpper, unitMin, unitMax) ==
    [make_operator(Operator_Calibration_idx, <<input>>, 1, unitMin, unitMax)
        EXCEPT !.d = [inputIndex |-> inputIndex,
                      calibFactor |-> (unitMax - unitMin) \div (inUpper - inLower),
                      inputLowerLimits |-> inLower]]

\* calibration_step_idx
calibration_step_idx(op, in) ==
    [op EXCEPT !.outputs =
        <<calibrate(in[op.d.inputIndex + 1], op.d.inputLowerLimits,
                    op.outputLowerLimits[1], op.d.calibFactor)>>]

\* make_difference(arena, inPipeA, inPipeB) for inputs of the same size
make_difference(inPipeA, inPipeB, size, inLower, inUpper) ==
    make_operator(Operator_Difference, <<inPipeA, inPipeB>>, size,
                  inLower - inUpper, inUpper - inLower)

\* make_difference_idx(arena, inPipeA, inPipeB, indexA, indexB)
make_difference_idx(inPipeA, inPipeB, indexA, indexB, inLower, inUpper) ==
    [make_operator(Operator_Difference_idx, <<inPipeA, inPipeB>>, 1,
                   inLower - inUpper, inUpper - inLower)
        EXCEPT !.d = [indexA |-> indexA, indexB |-> indexB]]

\* difference_step
difference_step(op, inputA, inputB) ==
    [op EXCEPT !.outputs =
        [idx \in 1..Len(inputA) |->
            IF is_param_valid(inputA[idx]) /\ is_param_valid(inputB[idx])
            THEN Param(inputA[idx].v - inputB[idx].v)
            ELSE invalid_param]]

\* difference_step_idx
difference_step_idx(op, inputA, inputB) ==
    [op EXCEPT !.outputs =
        <<IF is_param_valid(inputA[op.d.indexA + 1])
             /\ is_param_valid(inputB[op.d.indexB + 1])
          THEN Param(inputA[op.d.indexA + 1].v - inputB[op.d.indexB + 1].v)
          ELSE invalid_param>>]

\* n / d of two doubles: 0 / 0 is NaN, anything else over 0 an infinity,
\* otherwise the quotient on the grid
double_div(n, d) ==
    IF d = 0
    THEN (IF n = 0 THEN invalid_param
          ELSE IF n > 0 THEN Param(DoubleMax) ELSE Param(DoubleLowest))
    ELSE Param((n * Den) \div d)

BinaryEquationCount == 6

\* the equations of BinaryEquationTable and BinaryEquationTable_idx, for
\* two valid values
binary_equation(equationIndex, a, b) ==
    IF equationIndex = 0 THEN Param(a + b)
    ELSE IF equationIndex = 1 THEN Param(a - b)
    ELSE IF equationIndex = 2 THEN double_div(a + b, a - b)
    ELSE IF equationIndex = 3 THEN double_div(a - b, a + b)
    ELSE IF equationIndex = 4 THEN double_div(a, a - b)
    ELSE double_div(a - b, a)

\* make_binary_equation(arena, inputA, inputB, equationIndex, outputLowerLimit,
\* outputUpperLimit)
make_binary_equation(inputA, inputB, sizeA, sizeB, equationIndex, outputLowerLimit, outputUpperLimit) ==
    [make_operator(Operator_BinaryEquation, <<inputA, inputB>>, Min2(sizeA, sizeB),
                   outputLowerLimit, outputUpperLimit)
        EXCEPT !.d = equationIndex]

\* make_binary_equation_idx
make_binary_equation_idx(inputA, inputB, inputIndexA, inputIndexB, equationIndex, outputLowerLimit, outputUpperLimit) ==
    [make_operator(Operator_BinaryEquation_idx, <<inputA, inputB>>, 1,
                   outputLowerLimit, outputUpperLimit)
        EXCEPT !.d = [equationIndex |-> equationIndex,
                      inputIndexA |-> inputIndexA,
                      inputIndexB |-> inputIndexB]]

\* binary_equation_step: the elements below both input sizes are written
binary_equation_step(op, a, b) ==
    [op EXCEPT !.outputs =
        [i \in 1..Len(op.outputs) |->
            IF i <= Len(a) /\ i <= Len(b)
            THEN (IF is_param_valid(a[i]) /\ is_param_valid(b[i])
                  THEN binary_equation(op.d, a[i].v, b[i].v)
                  ELSE invalid_param)
            ELSE op.outputs[i]]]

\* binary_equation_step_idx
binary_equation_step_idx(op, a, b) ==
    [op EXCEPT !.outputs =
        <<IF is_param_valid(a[op.d.inputIndexA + 1])
             /\ is_param_valid(b[op.d.inputIndexB + 1])
          THEN binary_equation(op.d.equationIndex, a[op.d.inputIndexA + 1].v,
                               b[op.d.inputIndexB + 1].v)
          ELSE invalid_param>>]

\* ---------------------------------------------------------------------
\* SpecPropagate: Calibration, Difference and BinaryEquation, in the array
\* and the single-index form, step on pairs of input vectors
\* ---------------------------------------------------------------------

MaxPairLen == 2

PairValues == {Invalid} \cup {Param(x * Den) : x \in -1..1}

PairVectors == SeqsUpTo(PairValues, MaxPairLen) \ {<<>>}

PairInLower == -Den
PairInUpper == 2 * Den

InitPropagate ==
    /\ dataSources = NoSources
    /\ operators = NoOperators
    /\ operatorRanks = NoOperators
    /\ conditionBits = {}
    /\ samplers = <<>>
    /\ \E a \in PairVectors, b \in PairVectors :
          lastCall = [NoCall EXCEPT !.info = [a |-> a, b |-> b]]
    /\ matchCount = [ei \in EventIndexes |-> <<>>]
    /\ history = NoOperators
    /\ passCount = 0
    /\ worker = NoWorker

\* the step is recorded with the indexes of the input elements that each
\* output element is computed from: from[i] = <<index in a, index in b>>,
\* an index of 0 for an input the operator does not have
Stepped(fn, from, out) ==
    /\ lastCall.fn = "none"
    /\ lastCall' = [fn |-> fn, ei |-> 0,
                    info |-> [a |-> lastCall.info.a,
                              b |-> lastCall.info.b,
                              from |-> from,
                              out |-> out]]
    /\ UNCHANGED <<worker, dataSources, operators, operatorRanks, conditionBits, samplers,
                   matchCount, history, passCount>>

CalibrationStep ==
    LET a == lastCall.info.a
        op == make_calibration(Pipe("ds", 0), Len(a), PairInLower, PairInUpper,
                               0, 3 * Den)
    IN Stepped("calibration_step", [i \in 1..Len(a) |-> <<i, 0>>],
               calibration_step(op, a).outputs)

CalibrationStepIdx(inputIndex) ==
    LET a == lastCall.info.a
        op == make_calibration_idx(Pipe("ds", 0), inputIndex, PairInLower, PairInUpper,
                                   0, 3 * Den)
    IN /\ inputIndex < Len(a)
       /\ Stepped("calibration_step_idx", <<<<inputIndex + 1, 0>>>>,
                  calibration_step_idx(op, a).outputs)

DifferenceStep ==
    LET a == lastCall.info.a
        b == lastCall.info.b
        op == make_difference(Pipe("ds", 0), Pipe("ds", 1), Len(a),
                              PairInLower, PairInUpper)
    IN /\ Len(a) = Len(b)
       /\ Stepped("difference_step", [i \in 1..Len(a) |-> <<i, i>>],
                  difference_step(op, a, b).outputs)

DifferenceStepIdx(indexA, indexB) ==
    LET a == lastCall.info.a
        b == lastCall.info.b
        op == make_difference_idx(Pipe("ds", 0), Pipe("ds", 1), indexA, indexB,
                                  PairInLower, PairInUpper)
    IN /\ indexA < Len(a)
       /\ indexB < Len(b)
       /\ Stepped("difference_step_idx", <<<<indexA + 1, indexB + 1>>>>,
                  difference_step_idx(op, a, b).outputs)

BinaryEquationStep(equationIndex) ==
    LET a == lastCall.info.a
        b == lastCall.info.b
        op == make_binary_equation(Pipe("ds", 0), Pipe("ds", 1), Len(a), Len(b),
                                   equationIndex, PairInLower, PairInUpper)
    IN Stepped("binary_equation_step",
               [i \in 1..Min2(Len(a), Len(b)) |-> <<i, i>>],
               binary_equation_step(op, a, b).outputs)

BinaryEquationStepIdx(equationIndex, inputIndexA, inputIndexB) ==
    LET a == lastCall.info.a
        b == lastCall.info.b
        op == make_binary_equation_idx(Pipe("ds", 0), Pipe("ds", 1), inputIndexA,
                                       inputIndexB, equationIndex,
                                       PairInLower, PairInUpper)
    IN /\ inputIndexA < Len(a)
       /\ inputIndexB < Len(b)
       /\ Stepped("binary_equation_step_idx",
                  <<<<inputIndexA + 1, inputIndexB + 1>>>>,
                  binary_equation_step_idx(op, a, b).outputs)

NextPropagate ==
    \/ CalibrationStep
    \/ \E inputIndex \in 0..(MaxPairLen - 1) : CalibrationStepIdx(inputIndex)
    \/ DifferenceStep
    \/ \E indexA, indexB \in 0..(MaxPairLen - 1) : DifferenceStepIdx(indexA, indexB)
    \/ \E equationIndex \in 0..(BinaryEquationCount - 1) :
          \/ BinaryEquationStep(equationIndex)
          \/ \E inputIndexA, inputIndexB \in 0..(MaxPairLen - 1) :
                BinaryEquationStepIdx(equationIndex, inputIndexA, inputIndexB)

SpecPropagate == InitPropagate /\ [][NextPropagate]_vars

PropagatingSteps ==
    {"calibration_step", "calibration_step_idx", "difference_step",
     "difference_step_idx", "binary_equation_step", "binary_equation_step_idx"}

\* C16: after a step of Calibration, Difference or a BinaryEquation, in the
\* array or the single-index form, an output element is invalid whenever an
\* input element it is computed from is invalid
Thm_C16 ==
    lastCall.fn \in PropagatingSteps =>
        LET a == lastCall.info.a
            b == lastCall.info.b
            from == lastCall.info.from
            out == lastCall.info.out
        IN /\ Len(out) = Len(from)
           /\ \A i \in 1..Len(out) :
                 (\/ ~a[from[i][1]].valid
                  \/ (from[i][2] # 0 /\ ~b[from[i][2]].valid))
                    => ~out[i].valid

\* a step has given an output vector with a valid element, and an invalid
\* element that comes from an invalid input element
Wit_C16 ==
    /\ lastCall.fn \in PropagatingSteps
    /\ \E i, j \in 1..Len(lastCall.info.out) :
          /\ lastCall.info.out[i].valid
          /\ ~lastCall.info.out[j].valid
          /\ ~lastCall.info.a[lastCall.info.from[j][1]].valid

\* ---------------------------------------------------------------------
\* ConditionFilter
\* ---------------------------------------------------------------------

Operator_ConditionFilter == "ConditionFilter"

\* make_condition_filter(arena, dataInput, condInput, inverted, dataIndex,
\* condIndex): a negative index selects the whole array; a single data
\* element with a condition array uses the first condition element
make_condition_filter(dataInput, condInput, dataSize, inLower, inUpper, inverted, dataIndex, condIndex) ==
    [make_operator(Operator_ConditionFilter, <<dataInput, condInput>>,
                   IF dataIndex < 0 THEN dataSize ELSE 1, inLower, inUpper)
        EXCEPT !.d = [dataIndex |-> dataIndex,
                      condIndex |-> IF dataIndex >= 0 /\ condIndex < 0
                                    THEN 0 ELSE condIndex,
                      inverted |-> inverted]]

\* the data element, or invalid, by the condition element and the flag
condition_filter_select(condParam, inverted, dataParam) ==
    LET condValid == is_param_valid(condParam)
    IN IF condValid /\ ~inverted THEN dataParam
       ELSE IF ~condValid /\ inverted THEN dataParam
       ELSE invalid_param

\* the outputs of condition_filter_step for the operator's data d
condition_filter_outputs(d, dataInput, condInput) ==
    IF d.dataIndex < 0
    THEN [pi \in 1..Len(dataInput) |->
            LET condParam ==
                    IF d.condIndex < 0 /\ pi - 1 < Len(condInput)
                    THEN condInput[pi]
                    ELSE IF d.condIndex >= 0
                    THEN condInput[d.condIndex + 1]
                    ELSE invalid_param
            IN condition_filter_select(condParam, d.inverted, dataInput[pi])]
    ELSE <<condition_filter_select(condInput[d.condIndex + 1], d.inverted,
                                   dataInput[d.dataIndex + 1])>>

\* a filter that never inverts
condition_filter_step_not_inverting(op, dataInput, condInput) ==
    [op EXCEPT !.outputs =
        condition_filter_outputs([op.d EXCEPT !.inverted = FALSE], dataInput, condInput)]

\* condition_filter_step
condition_filter_step(op, dataInput, condInput) ==
    [op EXCEPT !.outputs = condition_filter_outputs(op.d, dataInput, condInput)]

\* ---------------------------------------------------------------------
\* SpecCondFilter: ConditionFilters of every form step on a data vector a
\* and a condition vector b
\* ---------------------------------------------------------------------

ConditionFilterStep(inverted, dataIndex, condIndex) ==
    LET a == lastCall.info.a
        b == lastCall.info.b
        op == make_condition_filter(Pipe("ds", 0), Pipe("ds", 1), Len(a),
                                    PairInLower, PairInUpper, inverted,
                                    dataIndex, condIndex)
    IN /\ lastCall.fn = "none"
       /\ dataIndex < Len(a)
       /\ condIndex < Len(b)
       /\ lastCall' = [fn |-> "condition_filter_step", ei |-> 0,
                       info |-> [a |-> a,
                                 b |-> b,
                                 inverted |-> inverted,
                                 dataIndex |-> dataIndex,
                                 condIndex |-> condIndex,
                                 out |-> condition_filter_step(op, a, b).outputs]]
       /\ UNCHANGED <<worker, dataSources, operators, operatorRanks, conditionBits, samplers,
                      matchCount, history, passCount>>

NextCondFilter ==
    \E inverted \in BOOLEAN, dataIndex, condIndex \in -1..(MaxPairLen - 1) :
        ConditionFilterStep(inverted, dataIndex, condIndex)

SpecCondFilter == InitPropagate /\ [][NextCondFilter]_vars

\* the data element if the condition element's validity differs from the
\* flag, the invalid parameter otherwise
Gate(condValid, inverted, dataParam) ==
    IF condValid # inverted THEN dataParam ELSE Invalid

\* C17: an output element is its data element when (the condition element
\* is valid) differs from (inverted), and invalid otherwise; array data with
\* an array condition takes cond[i], invalid beyond the condition's size;
\* single data with an array condition takes the condition's first element;
\* a single condition index gates every data element
Thm_C17 ==
    lastCall.fn = "condition_filter_step" =>
        LET data == lastCall.info.a
            cond == lastCall.info.b
            inverted == lastCall.info.inverted
            dataIndex == lastCall.info.dataIndex
            condIndex == lastCall.info.condIndex
            out == lastCall.info.out
        IN IF dataIndex < 0 /\ condIndex < 0
           THEN /\ Len(out) = Len(data)
                /\ \A i \in 1..Len(data) :
                      out[i] = Gate(i <= Len(cond) /\ cond[i].valid, inverted, data[i])
           ELSE IF dataIndex < 0
           THEN /\ Len(out) = Len(data)
                /\ \A i \in 1..Len(data) :
                      out[i] = Gate(cond[condIndex + 1].valid, inverted, data[i])
           ELSE IF condIndex < 0
           THEN out = <<Gate(cond[1].valid, inverted, data[dataIndex + 1])>>
           ELSE out = <<Gate(cond[condIndex + 1].valid, inverted, data[dataIndex + 1])>>

\* an inverted filter of array data with a shorter array condition has let
\* a valid data element beyond the condition's size through
Wit_C17 ==
    /\ lastCall.fn = "condition_filter_step"
    /\ lastCall.info.inverted
    /\ lastCall.info.dataIndex < 0
    /\ lastCall.info.condIndex < 0
    /\ Len(lastCall.info.b) < Len(lastCall.info.a)
    /\ lastCall.info.b[1].valid
    /\ lastCall.info.out[Len(lastCall.info.a)].valid
    /\ ~lastCall.info.out[1].valid

\* ---------------------------------------------------------------------
\* Expression operator: the outputs built from the begin expression's
\* results
\* ---------------------------------------------------------------------

Operator_Expression == "Expression"

ElementsPerOutput == 5

\* a2_exprtk::Expression::Result: a scalar, a string or a vector
ScalarResult(x) == [type |-> "Scalar", scalar |-> x, string |-> "", vector |-> <<>>]
StringResult(str) == [type |-> "String", scalar |-> 0, string |-> str, vector |-> <<>>]
VectorResult(vec) == [type |-> "Vector", scalar |-> 0, string |-> "", vector |-> vec]

\* std::lround: to the nearest integer, halfway cases away from zero
lround(x) ==
    IF x >= 0 THEN (2 * x + Den) \div (2 * Den)
    ELSE -((2 * (-x) + Den) \div (2 * Den))

SemanticError(message) == [error |-> TRUE, message |-> message]

\* build_output_spec without the comparison of the limit arrays' size and
\* the output size
build_output_spec_any_limit_size(res_name, res_unit, res_size, res_ll, res_ul) ==
    IF res_name.type # "String" \/ res_unit.type # "String" \/ res_size.type # "Scalar"
    THEN SemanticError("Unexpected result type")
    ELSE LET outputSize == lround(res_size.scalar)
         IN IF outputSize <= 0
            THEN SemanticError("Invalid output size returned")
            ELSE IF res_ll.type = "Scalar" /\ res_ul.type = "Scalar"
            THEN [error |-> FALSE,
                  name |-> res_name.string,
                  unit |-> res_unit.string,
                  lowerLimits |-> [i \in 1..outputSize |-> res_ll.scalar],
                  upperLimits |-> [i \in 1..outputSize |-> res_ul.scalar]]
            ELSE IF res_ll.type = "Vector" /\ res_ul.type = "Vector"
            THEN (IF Len(res_ll.vector) # Len(res_ul.vector)
                  THEN SemanticError("Different sizes of limit specifications")
                  ELSE [error |-> FALSE,
                        name |-> res_name.string,
                        unit |-> res_unit.string,
                        lowerLimits |-> res_ll.vector,
                        upperLimits |-> res_ul.vector])
            ELSE SemanticError(
                    "Limit definitions must either both be scalars or both be arrays.")

\* build_output_spec(out_idx, result_idx, res_name, res_unit, res_size, res_ll,
\* res_ul): the output's specification, or the semantic error thrown
build_output_spec(res_name, res_unit, res_size, res_ll, res_ul) ==
    IF res_name.type # "String" \/ res_unit.type # "String" \/ res_size.type # "Scalar"
    THEN SemanticError("Unexpected result type")
    ELSE LET outputSize == lround(res_size.scalar)
         IN IF outputSize <= 0
            THEN SemanticError("Invalid output size returned")
            ELSE IF res_ll.type = "Scalar" /\ res_ul.type = "Scalar"
            THEN [error |-> FALSE,
                  name |-> res_name.string,
                  unit |-> res_unit.string,
                  lowerLimits |-> [i \in 1..outputSize |-> res_ll.scalar],
                  upperLimits |-> [i \in 1..outputSize |-> res_ul.scalar]]
            ELSE IF res_ll.type = "Vector" /\ res_ul.type = "Vector"
            THEN (IF Len(res_ll.vector) # Len(res_ul.vector)
                  THEN SemanticError("Different sizes of limit specifications")
                  ELSE IF Len(res_ll.vector) # outputSize
                  THEN SemanticError("Output size and size of limit arrays differ!")
                  ELSE [error |-> FALSE,
                        name |-> res_name.string,
                        unit |-> res_unit.string,
                        lowerLimits |-> res_ll.vector,
                        upperLimits |-> res_ul.vector])
            ELSE SemanticError(
                    "Limit definitions must either both be scalars or both be arrays.")

\* the loop over the outputs of make_expression_operator: the operator with
\* the outputs pushed so far, until a build_output_spec throws
RECURSIVE expression_outputs_loop(_, _, _, _)
expression_outputs_loop(result, begin_results, outputCount, out_idx) ==
    IF out_idx >= outputCount THEN [error |-> FALSE, op |-> result]
    ELSE LET result_idx == out_idx * ElementsPerOutput
             outSpec == build_output_spec(begin_results[result_idx + 1],
                                          begin_results[result_idx + 2],
                                          begin_results[result_idx + 3],
                                          begin_results[result_idx + 4],
                                          begin_results[result_idx + 5])
         IN IF outSpec.error THEN outSpec
            ELSE expression_outputs_loop(
                    [result EXCEPT
                        !.outputs = Append(@, push_param_vector(Len(outSpec.lowerLimits),
                                                                invalid_param)),
                        !.outputLowerLimits = Append(@, outSpec.lowerLimits),
                        !.outputUpperLimits = Append(@, outSpec.upperLimits),
                        !.d.output_names = Append(@, outSpec.name),
                        !.d.output_units = Append(@, outSpec.unit)],
                    begin_results, outputCount, out_idx + 1)

\* make_expression_operator, from the results of the evaluated begin
\* expression on: the operator with one output per tuple, or the semantic
\* error thrown
make_expression_operator(inputs, begin_results) ==
    IF Len(begin_results) = 0
    THEN SemanticError("Empty result list from BeginExpression")
    ELSE IF Len(begin_results) % ElementsPerOutput # 0
    THEN SemanticError("BeginExpression returned an invalid number of results")
    ELSE expression_outputs_loop(
            [type |-> Operator_Expression,
             inputs |-> inputs,
             conditionIndex |-> NoCondition,
             outputs |-> <<>>,
             outputLowerLimits |-> <<>>,
             outputUpperLimits |-> <<>>,
             d |-> [output_names |-> <<>>, output_units |-> <<>>]],
            begin_results, Len(begin_results) \div ElementsPerOutput, 0)

\* ---------------------------------------------------------------------
\* SpecExpression: make_expression_operator on result lists of every shape
\* ---------------------------------------------------------------------

MaxLimitLen == 2

\* the scalars 0, 1/2 (with Den = 2), 1 and 2; a string; vectors of
\* 1..MaxLimitLen elements
ResultValues ==
    {StringResult("s")}
    \cup {ScalarResult(x) : x \in {0, Den \div 2, Den, 2 * Den}}
    \cup {VectorResult([i \in 1..n |-> 0]) : n \in 1..MaxLimitLen}

RECURSIVE ResultLists(_)
ResultLists(n) ==
    IF n = 0 THEN {<<>>}
    ELSE {Append(q, x) : q \in ResultLists(n - 1), x \in ResultValues}

\* two well-formed tuples: one with scalar limits, one with limit vectors
GoodTuples ==
    {<<StringResult("s"), StringResult("s"), ScalarResult(Den),
       ScalarResult(0), ScalarResult(Den)>>,
     <<StringResult("s"), StringResult("s"), ScalarResult(2 * Den),
       VectorResult(<<0, 0>>), VectorResult(<<0, 0>>)>>}

\* every list of up to one tuple's length, and the lists of a well-formed
\* tuple followed by up to one tuple's length
BeginResults ==
    LET short == UNION {ResultLists(n) : n \in 0..ElementsPerOutput}
    IN short \cup {g \o q : g \in GoodTuples, q \in short}

InitExpression ==
    /\ dataSources = NoSources
    /\ operators = NoOperators
    /\ operatorRanks = NoOperators
    /\ conditionBits = {}
    /\ samplers = <<>>
    /\ \E begin_results \in BeginResults :
          lastCall = [NoCall EXCEPT !.info = begin_results]
    /\ matchCount = [ei \in EventIndexes |-> <<>>]
    /\ history = NoOperators
    /\ passCount = 0
    /\ worker = NoWorker

MakeExpressionOperator ==
    /\ lastCall.fn = "none"
    /\ lastCall' = [fn |-> "make_expression_operator", ei |-> 0,
                    info |-> [begin_results |-> lastCall.info,
                              out |-> make_expression_operator(<<Pipe("ds", 0)>>,
                                                               lastCall.info)]]
    /\ UNCHANGED <<worker, dataSources, operators, operatorRanks, conditionBits, samplers,
                   matchCount, history, passCount>>

NextExpression == MakeExpressionOperator

SpecExpression == InitExpression /\ [][NextExpression]_vars

\* the faults of a tuple that the claim lists
ListedFault(name, unit, size, ll, ul) ==
    \/ name.type # "String"
    \/ unit.type # "String"
    \/ size.type # "Scalar"
    \/ lround(size.scalar) <= 0
    \/ /\ ll.type = "Vector" /\ ul.type = "Vector"
       /\ \/ Len(ll.vector) # Len(ul.vector)
          \/ Len(ll.vector) # lround(size.scalar)
          \/ Len(ul.vector) # lround(size.scalar)
    \/ (ll.type = "Scalar" /\ ul.type = "Vector")
    \/ (ll.type = "Vector" /\ ul.type = "Scalar")

\* a limit that is neither a scalar nor a vector
StringLimit(ll, ul) == ll.type = "String" \/ ul.type = "String"

TupleAt(begin_results, k) ==
    [j \in 1..ElementsPerOutput |-> begin_results[(k - 1) * ElementsPerOutput + j]]

\* the operator has one output per tuple, of the tuple's declared size
OutputsAsDeclared(begin_results, op) ==
    LET outputCount == Len(begin_results) \div ElementsPerOutput
    IN /\ Len(op.outputs) = outputCount
       /\ Len(op.outputLowerLimits) = outputCount
       /\ Len(op.outputUpperLimits) = outputCount
       /\ \A k \in 1..outputCount :
             LET declared == lround(TupleAt(begin_results, k)[3].scalar)
             IN /\ Len(op.outputs[k]) = declared
                /\ Len(op.outputLowerLimits[k]) = declared
                /\ Len(op.outputUpperLimits[k]) = declared

\* C18 as stated: a semantic error and no operator exactly for the listed
\* faults, and for every other result list one output per 5-tuple with data
\* and limit vectors of the declared size
Cex_C18 ==
    lastCall.fn = "make_expression_operator" =>
        LET begin_results == lastCall.info.begin_results
            out == lastCall.info.out
            listed ==
                \/ Len(begin_results) = 0
                \/ Len(begin_results) % ElementsPerOutput # 0
                \/ \E k \in 1..(Len(begin_results) \div ElementsPerOutput) :
                      LET t == TupleAt(begin_results, k)
                      IN ListedFault(t[1], t[2], t[3], t[4], t[5])
        IN IF listed THEN out.error
           ELSE ~out.error /\ OutputsAsDeclared(begin_results, out.op)

\* C18: make_expression_operator raises a semantic error and returns no
\* operator for an empty result list, a result count that is not a multiple
\* of 5, and a tuple with one of the listed faults or with a lower or upper
\* limit that is a string; for every other result list it gives one output
\* per 5-tuple whose data and limit vectors have the declared size
Thm_C18 ==
    lastCall.fn = "make_expression_operator" =>
        LET begin_results == lastCall.info.begin_results
            out == lastCall.info.out
            faulty ==
                \/ Len(begin_results) = 0
                \/ Len(begin_results) % ElementsPerOutput # 0
                \/ \E k \in 1..(Len(begin_results) \div ElementsPerOutput) :
                      LET t == TupleAt(begin_results, k)
                      IN \/ ListedFault(t[1], t[2], t[3], t[4], t[5])
                         \/ StringLimit(t[4], t[5])
        IN IF faulty THEN out.error
           ELSE ~out.error /\ OutputsAsDeclared(begin_results, out.op)

\* an operator with two outputs of different sizes has been built, one from
\* scalar limits and one from limit vectors
Wit_C18 ==
    /\ lastCall.fn = "make_expression_operator"
    /\ ~lastCall.info.out.error
    /\ Len(lastCall.info.out.op.outputs) = 2
    /\ Len(lastCall.info.out.op.outputs[1]) = 1
    /\ Len(lastCall.info.out.op.outputs[2]) = 2
    /\ lastCall.info.begin_results[9].type = "Vector"

\* ---------------------------------------------------------------------
\* SpecGate: gated operators of two event indexes on one condition bit, and
\* an interval condition placed in front of a gated operator
\* ---------------------------------------------------------------------

\* make_condition_interval(a2, arena, input, intervals)
make_condition_interval(input, intervals) ==
    [make_operator(Operator_ConditionInterval, <<input>>, 0, 0, 0)
        EXCEPT !.d = [conditionIndex |-> NoCondition, intervals |-> intervals]]

\* the interval condition of the graph, its first bit assigned by the
\* builder of the graph
GateCondition ==
    [make_condition_interval(Pipe("ds", 0),
                             [i \in 1..ChainSize |-> [min |-> ChainInLower,
                                                      max |-> ChainInUpper]])
        EXCEPT !.d.conditionIndex = 0]

\* the condition bits an operator writes when it steps
BitsWrittenBy(op) ==
    IF is_condition_operator(op)
    THEN op.d.conditionIndex..(op.d.conditionIndex + Len(op.d.intervals) - 1)
    ELSE {}

GateLayouts ==
    {[NoOperators EXCEPT ![0] = <<Gated(ChainCalibration, 0)>>,
                         ![1] = <<Gated(ChainCalibration, 0)>>],
     [NoOperators EXCEPT ![0] = <<GateCondition, Gated(ChainCalibration, 0)>>]}

InitGate ==
    /\ dataSources = [ei \in EventIndexes |->
                         <<make_datasource_extractor(1, 1, 0, 0, {NoAddedRandom})>>]
    /\ operators \in GateLayouts
    /\ operatorRanks = [ei \in EventIndexes |-> [i \in 1..Len(operators[ei]) |-> i]]
    /\ conditionBits = {}
    /\ samplers = <<>>
    /\ lastCall = NoCall
    /\ matchCount = [ei \in EventIndexes |-> [i \in 1..Len(dataSources[ei]) |-> 0]]
    /\ history = [ei \in EventIndexes |-> [i \in 1..Len(operators[ei]) |-> <<>>]]
    /\ passCount = 0
    /\ worker = NoWorker

\* nothing is called after a pass that ended the process
NextGate ==
    /\ lastCall.fn # "abort"
    /\ \/ \E ei \in EventIndexes : EventBegin(ei)
       \/ \E ei \in EventIndexes : \E mi \in BoundModules(ei), data \in OneWordBuffers :
             EventData(ei, mi, data)
       \/ \E ei \in EventIndexes : EndEvent(ei)
       \/ \E bit \in ConditionBitIndexes, value \in BOOLEAN : SetCondition(bit, value)

SpecGate == InitGate /\ [][NextGate]_vars

\* C19: whenever a2_end_event tests conditionBits[k] to gate an operator,
\* the bit has been written by a condition operator stepped earlier in the
\* same a2_end_event call, so that no gated operator acts on a bit left over
\* from a previous event or written by a pass of another event index
Cex_C19 ==
    lastCall.fn = "a2_end_event" =>
        LET ops == operators[lastCall.ei]
            stepped == lastCall.info
        IN \A j \in 1..Len(ops) :
              ops[j].conditionIndex >= 0 =>
                 \E k \in 1..Len(stepped) :
                    /\ stepped[k].op < j - 1
                    /\ ops[j].conditionIndex \in BitsWrittenBy(ops[stepped[k].op + 1])

\* ---------------------------------------------------------------------
\* SpecFrame: module buffers handed to an event whose data sources are bound
\* to both modules, two ListFilterExtractors sharing the buffer of module 0
\* with an Extractor, next to an event with one Extractor
\* ---------------------------------------------------------------------

FrameGraphs ==
    {[NoSources EXCEPT
        ![0] = <<make_datasource_listfilter_extractor(wc, 1, 0, 0, {NoAddedRandom}),
                 make_datasource_extractor(1, 1, 0, 0, {NoAddedRandom}),
                 make_datasource_listfilter_extractor(1, 1, 0, 0, {NoAddedRandom}),
                 make_datasource_extractor(1, 1, 0, 1, {NoAddedRandom})>>,
        ![1] = <<make_datasource_extractor(1, 1, 0, 0, {NoAddedRandom})>>] :
        wc \in 1..2}

InitFrame ==
    /\ dataSources \in FrameGraphs
    /\ operators = NoOperators
    /\ operatorRanks = NoOperators
    /\ conditionBits = {}
    /\ samplers = <<>>
    /\ lastCall = NoCall
    /\ matchCount = [ei \in EventIndexes |-> [i \in 1..Len(dataSources[ei]) |-> 0]]
    /\ history = NoOperators
    /\ passCount = 0
    /\ worker = NoWorker

\* a2_process_module_data, its arguments, the memory it ran on and the
\* ListFilterExtractor calls it made recorded
ProcessModuleDataFramed(ei, mi, data) ==
    \E tail \in TailsRead(dataSources[ei], mi, data) :
       LET mem == [data |-> data, tail |-> tail]
           r == a2_process_module_data(dataSources[ei], mi, mem)
       IN /\ dataSources' = [dataSources EXCEPT ![ei] = r.sources]
          /\ lastCall' = [fn |-> "a2_process_module_data", ei |-> ei,
                          info |-> [moduleIndex |-> mi, mem |-> mem,
                                    calls |-> r.calls]]
          /\ UNCHANGED <<worker, operators, operatorRanks, conditionBits, samplers,
                         matchCount, history, passCount>>

\* the module buffers of the frame check: words of two kinds
FrameBuffers == {data \in Buffers : \A i \in 1..Len(data) : data[i] \in {0, 5}}

NextFrame ==
    \/ \E ei \in EventIndexes : BeginEvent(ei)
    \/ \E ei \in EventIndexes, mi \in ModuleIndexes, data \in FrameBuffers :
          ProcessModuleDataFramed(ei, mi, data)

SpecFrame == InitFrame /\ [][NextFrame]_vars

\* the cursor the ListFilterExtractor at C index srcIdx finds: the one the
\* last ListFilterExtractor invoked before it returned, the start of the
\* buffer if there was none
CursorBefore(calls, srcIdx) ==
    LET earlier == {c \in 1..Len(calls) : calls[c].srcIdx < srcIdx}
    IN IF earlier = {} THEN 0
       ELSE calls[CHOOSE c \in earlier : \A o \in earlier : o <= c].returned

\* C20: a2_process_module_data(eventIndex, moduleIndex, words) changes only
\* the data sources of that event index bound to the given module; each
\* Extractor among them scans the whole buffer from its first word; the
\* ListFilterExtractors among them take the buffer one after the other in
\* array order, each from the cursor the previous one returned, and none is
\* invoked once the cursor has reached the end of the buffer.
Thm_C20 ==
    [][lastCall'.fn = "a2_process_module_data" =>
        LET ei == lastCall'.ei
            mi == lastCall'.info.moduleIndex
            mem == lastCall'.info.mem
            calls == lastCall'.info.calls
            endPtr == Len(mem.data)
            before == dataSources[ei]
            after == dataSources'[ei]
        IN /\ UNCHANGED <<worker, operators, operatorRanks, conditionBits, samplers,
                          history, passCount>>
           /\ \A e \in EventIndexes \ {ei} : dataSources'[e] = dataSources[e]
           /\ Len(after) = Len(before)
           /\ \A c \in 1..Len(calls) :
                 /\ before[calls[c].srcIdx + 1].type = DataSource_ListFilterExtractor
                 /\ before[calls[c].srcIdx + 1].moduleIndex = mi
                 /\ c > 1 => calls[c - 1].srcIdx < calls[c].srcIdx
           /\ \A i \in 1..Len(before) :
                 LET cursor == CursorBefore(calls, i - 1)
                     invoked == \E c \in 1..Len(calls) : calls[c].srcIdx = i - 1
                 IN IF before[i].moduleIndex # mi
                    THEN after[i] = before[i] /\ ~invoked
                    ELSE IF before[i].type = DataSource_Extractor
                    THEN after[i] = extractor_process_module_data(
                                        before[i], mem.data, endPtr)
                    ELSE /\ invoked <=> cursor < endPtr
                         /\ ~invoked => after[i] = before[i]
                         /\ invoked =>
                              after[i] = listfilter_extractor_process_module_data(
                                            before[i], mem, cursor, endPtr - cursor).ds
    ]_vars

\* a call on module 0 of event 0 that fed both ListFilterExtractors, the
\* second one from the cursor of the first, and the Extractor between them
Wit_C20 ==
    /\ lastCall.fn = "a2_process_module_data"
    /\ lastCall.ei = 0
    /\ lastCall.info.moduleIndex = 0
    /\ Len(lastCall.info.calls) = 2
    /\ lastCall.info.calls[2].data = lastCall.info.calls[1].returned
    /\ lastCall.info.calls[2].data > 0
    /\ \E a \in 1..Len(dataSources[0][2].hitCounts) :
          dataSources[0][2].hitCounts[a] > 0

\* ---------------------------------------------------------------------
\* SpecAddress: the addressing of a ListFilterExtractor, for list filters of
\* up to MaxAddressBits address bits and up to MaxRepetitions repetitions
\* ---------------------------------------------------------------------

MaxAddressBits == 2
MaxRepetitions == 5

AddressPolicies == {{NoAddedRandom},
                    {NoAddedRandom, RepetitionContributesLowAddressBits}}

AddressSources ==
    {make_datasource_listfilter([wordCount |-> 1, addressBits |-> bits],
                                repetitions, 0, 0, options) :
        bits \in 1..MaxAddressBits, repetitions \in 1..MaxRepetitions,
        options \in AddressPolicies}

InitAddress ==
    /\ dataSources = NoSources
    /\ operators = NoOperators
    /\ operatorRanks = NoOperators
    /\ conditionBits = {}
    /\ samplers = <<>>
    /\ lastCall \in {[fn |-> "none", ei |-> 0, info |-> [ds |-> ds]] :
                        ds \in AddressSources}
    /\ matchCount = NoSources
    /\ history = NoOperators
    /\ passCount = 0
    /\ worker = NoWorker

\* the final addresses of two matches of the data source: of repetition
\* repA with extracted address addrA, and of repetition repB with addrB
ListFilterAddress(repA, addrA, repB, addrB) ==
    /\ lastCall.fn = "none"
    /\ lastCall' = [fn |-> "listfilter_address", ei |-> 0,
                    info |-> [ds |-> lastCall.info.ds,
                              repA |-> repA, addrA |-> addrA,
                              repB |-> repB, addrB |-> addrB,
                              outA |-> listfilter_address(lastCall.info.ds.d, addrA, repA),
                              outB |-> listfilter_address(lastCall.info.ds.d, addrB, repB)]]
    /\ UNCHANGED <<worker, dataSources, operators, operatorRanks, conditionBits,
                   samplers, matchCount, history, passCount>>

NextAddress ==
    \E repA, repB \in 0..(lastCall.info.ds.d.repetitions - 1) :
       \E addrA, addrB \in 0..(Pow2(get_base_address_bits(lastCall.info.ds.d)) - 1) :
          ListFilterAddress(repA, addrA, repB, addrB)

SpecAddress == InitAddress /\ [][NextAddress]_vars

\* C21: the output vector of a ListFilterExtractor has exactly
\* 2^(baseAddressBits + ceil(log2(repetitions))) slots; for every repetition
\* below repetitions and every extracted address below 2^baseAddressBits the
\* final address is below that size under both policies, and distinct
\* (repetition, address) pairs have distinct final addresses.
Thm_C21 ==
    LET ds == lastCall.info.ds
        size == Len(ds.output)
    IN /\ \E bits \in 0..(MaxAddressBits + MaxRepetitions) :
             /\ size = 2 ^ (ds.d.listFilter.addressBits + bits)
             /\ 2 ^ bits >= ds.d.repetitions
             /\ bits > 0 => 2 ^ (bits - 1) < ds.d.repetitions
       /\ Len(ds.hitCounts) = size
       /\ lastCall.fn = "listfilter_address" =>
             /\ lastCall.info.outA \in 0..(size - 1)
             /\ lastCall.info.outB \in 0..(size - 1)
             /\ (lastCall.info.repA # lastCall.info.repB
                 \/ lastCall.info.addrA # lastCall.info.addrB)
                   => lastCall.info.outA # lastCall.info.outB

\* the last repetition of a data source whose repetitions are no power of
\* two, with the highest address, next to another pair, under the policy of
\* repetitions in the low bits
Wit_C21 ==
    /\ lastCall.fn = "listfilter_address"
    /\ lastCall.info.ds.d.repetitions = 3
    /\ RepetitionContributesLowAddressBits \in lastCall.info.ds.d.options
    /\ lastCall.info.repA = 2
    /\ lastCall.info.addrA = Pow2(lastCall.info.ds.d.listFilter.addressBits) - 1
    /\ lastCall.info.repB = 1
    /\ lastCall.info.outA = Len(lastCall.info.ds.output) - 2

\* ---------------------------------------------------------------------
\* The closing assertion of a2_end_event, checked under Spec
\* ---------------------------------------------------------------------

\* assert(opSteppedCount == opCount) at the end of a2_end_event, for the
\* steps of a pass over the operators ops
end_event_assertion(ops, stepped) == Len(stepped) = Len(ops)

\* C22: a2_end_event never aborts an event because of a failed condition:
\* its closing assertion opSteppedCount == opCount holds after every pass,
\* also after a pass that skipped a gated operator whose condition bit is
\* unset.
Cex_C22 ==
    lastCall.fn = "a2_end_event" =>
        end_event_assertion(operators[lastCall.ei], lastCall.info)

\* ---------------------------------------------------------------------
\* SpecMinMaxX: Aggregate MinX and Aggregate MaxX over the input vectors
\* ---------------------------------------------------------------------

Operator_Aggregate_MinX == "Aggregate_MinX"
Operator_Aggregate_MaxX == "Aggregate_MaxX"

\* a < b on doubles: false when either is NaN
double_less(a, b) == a.valid /\ b.valid /\ a.v < b.v

\* std::isnan
std_isnan(p) == ~p.valid

\* make_aggregate_minx(arena, input, thresholds)
make_aggregate_minx(input, size, inLower, inUpper, thresholds) ==
    [make_aggregate_op(input, Operator_Aggregate_MinX, inLower, inUpper, thresholds)
        EXCEPT !.outputLowerLimits = <<0>>, !.outputUpperLimits = <<size>>]

\* make_aggregate_maxx(arena, input, thresholds)
make_aggregate_maxx(input, size, inLower, inUpper, thresholds) ==
    [make_aggregate_op(input, Operator_Aggregate_MaxX, inLower, inUpper, thresholds)
        EXCEPT !.outputLowerLimits = <<0>>, !.outputUpperLimits = <<size>>]

\* the loop of aggregate_minx_step; minIndex and i are C indexes
RECURSIVE aggregate_minx_loop(_, _, _, _)
aggregate_minx_loop(input, thresholds, minIndex, i) ==
    IF i >= Len(input) THEN minIndex
    ELSE IF is_valid_and_inside(input[i + 1], thresholds)
            /\ (double_less(input[i + 1], input[minIndex + 1])
                \/ std_isnan(input[minIndex + 1]))
    THEN aggregate_minx_loop(input, thresholds, i, i + 1)
    ELSE aggregate_minx_loop(input, thresholds, minIndex, i + 1)

\* aggregate_minx_step
aggregate_minx_step(op, in) ==
    LET minIndex == aggregate_minx_loop(in, op.d, 0, 0)
    IN [op EXCEPT !.outputs = <<IF is_valid_and_inside(in[minIndex + 1], op.d)
                                THEN Param(minIndex) ELSE invalid_param>>]

\* the loop of aggregate_maxx_step
RECURSIVE aggregate_maxx_loop(_, _, _, _)
aggregate_maxx_loop(input, thresholds, maxIndex, i) ==
    IF i >= Len(input) THEN maxIndex
    ELSE IF is_valid_and_inside(input[i + 1], thresholds)
            /\ (double_less(input[maxIndex + 1], input[i + 1])
                \/ std_isnan(input[maxIndex + 1]))
    THEN aggregate_maxx_loop(input, thresholds, i, i + 1)
    ELSE aggregate_maxx_loop(input, thresholds, maxIndex, i + 1)

\* aggregate_maxx_step
aggregate_maxx_step(op, in) ==
    LET maxIndex == aggregate_maxx_loop(in, op.d, 0, 0)
    IN [op EXCEPT !.outputs = <<IF is_valid_and_inside(in[maxIndex + 1], op.d)
                                THEN Param(maxIndex) ELSE invalid_param>>]

AggregateMinXStep(thresholds) ==
    /\ lastCall.fn = "none"
    /\ LET a == lastCall.info.a
           op == make_aggregate_minx(Pipe("ds", 0), Len(a), StepInLower, StepInUpper, thresholds)
       IN lastCall' = [fn |-> "aggregate_minx_step", ei |-> 0,
                       info |-> [a |-> a,
                                 thresholds |-> op.d,
                                 out |-> aggregate_minx_step(op, a).outputs]]
    /\ UNCHANGED <<worker, dataSources, operators, operatorRanks, conditionBits, samplers,
                   matchCount, history, passCount>>

AggregateMaxXStep(thresholds) ==
    /\ lastCall.fn = "none"
    /\ LET a == lastCall.info.a
           op == make_aggregate_maxx(Pipe("ds", 0), Len(a), StepInLower, StepInUpper, thresholds)
       IN lastCall' = [fn |-> "aggregate_maxx_step", ei |-> 0,
                       info |-> [a |-> a,
                                 thresholds |-> op.d,
                                 out |-> aggregate_maxx_step(op, a).outputs]]
    /\ UNCHANGED <<worker, dataSources, operators, operatorRanks, conditionBits, samplers,
                   matchCount, history, passCount>>

NextMinMaxX ==
    \/ \E thresholds \in StepWindows : AggregateMinXStep(thresholds)
    \/ \E thresholds \in StepWindows : AggregateMaxXStep(thresholds)

SpecMinMaxX == InitStep /\ [][NextMinMaxX]_vars

\* C23: whenever some element is valid and inside the window,
\* aggregate_minx_step outputs the index of a smallest such element and
\* aggregate_maxx_step the index of a largest one, whatever input[0] is
\* (valid outside the window, or invalid); the output is invalid exactly
\* when no element qualifies
Cex_C23 ==
    lastCall.fn \in {"aggregate_minx_step", "aggregate_maxx_step"} =>
        LET a == lastCall.info.a
            q == QualifyingIndexes(a, lastCall.info.thresholds)
            out == lastCall.info.out
        IN /\ Len(out) = 1
           /\ out[1].valid <=> q # {}
           /\ out[1].valid =>
                 /\ out[1].v + 1 \in q
                 /\ lastCall.fn = "aggregate_minx_step" =>
                       \A i \in q : a[out[1].v + 1].v <= a[i].v
                 /\ lastCall.fn = "aggregate_maxx_step" =>
                       \A i \in q : a[out[1].v + 1].v >= a[i].v

\* ---------------------------------------------------------------------
\* The hit counts of the data sources, checked under SpecSources
\* ---------------------------------------------------------------------

\* C24: the hit counts of a data source accumulate over the run:
\* a2_begin_event never changes them; over the a2_begin_event and
\* a2_process_module_data calls hitCounts[a] never decreases, grows by one
\* exactly in a call that stores a value in the empty slot a, and by no more
\* than one between two a2_begin_event calls, a filled slot being emptied by
\* a2_begin_event only; so that hitCounts[a] is the number of events in which
\* a value was stored at address a.
Thm_C24 ==
    [][\A ei \in EventIndexes : \A i \in 1..Len(dataSources[ei]) :
          LET before == dataSources[ei][i]
              after == dataSources'[ei][i]
          IN /\ Len(after.hitCounts) = Len(before.hitCounts)
             /\ lastCall'.fn = "a2_begin_event" => after.hitCounts = before.hitCounts
             /\ \A a \in 1..Len(before.hitCounts) :
                   /\ after.hitCounts[a] \in {before.hitCounts[a], before.hitCounts[a] + 1}
                   /\ after.hitCounts[a] = before.hitCounts[a] + 1
                         <=> (~before.output[a].valid /\ after.output[a].valid)
                   /\ (before.output[a].valid /\ ~after.output[a].valid)
                         => lastCall'.fn = "a2_begin_event"
    ]_vars

\* a ListFilterExtractor and an Extractor that both stored a value at the
\* same address in two events, the slot of the first filled in this event
Wit_C24 ==
    /\ Len(dataSources[0]) = 2
    /\ \E a \in 1..Len(dataSources[0][1].hitCounts) :
          /\ dataSources[0][1].hitCounts[a] = 2
          /\ dataSources[0][1].output[a].valid
    /\ \E a \in 1..Len(dataSources[0][2].hitCounts) :
          dataSources[0][2].hitCounts[a] = 2

\* ---------------------------------------------------------------------
\* SpecH1DSink: an H1D sink of one histogram or two is stepped on input
\* vectors; the steps and the NaN elements are counted
\* ---------------------------------------------------------------------

Operator_H1DSink == "H1DSink"

\* make_h1d_sink(arena, inPipe, histos)
make_h1d_sink(inPipe, histos) ==
    [make_operator(Operator_H1DSink, <<inPipe>>, 0, 0, 0)
        EXCEPT !.outputs = <<>>, !.d = [histos |-> histos]]

\* h1d_sink_step
h1d_sink_step(op, in) ==
    [op EXCEPT !.d.histos = [idx \in 1..Len(@) |-> fill_h1d(@[idx], in[idx])]]

\* the histogram vectors of the sinks: every small axis alone, and a pair
SinkHistos ==
    {<<make_h1d(min, range, binCount)>> :
        min \in HistoMins, range \in HistoRanges, binCount \in HistoBinCounts}
    \cup {<<make_h1d(0, 2, 2), make_h1d(-Den, 2^FloatBits - 1, 1)>>}

\* the input vectors of a sink: per histogram a value below, inside, at the
\* edges of or above its axis, or NaN
RECURSIVE SinkInputs(_, _)
SinkInputs(histos, n) ==
    IF n = 0 THEN {<<>>}
    ELSE {Append(in, x) : in \in SinkInputs(histos, n - 1),
                          x \in FillValues(histos[n].binning.min,
                                           histos[n].binning.range)}

InitH1DSink ==
    /\ dataSources = NoSources
    /\ operators = NoOperators
    /\ operatorRanks = NoOperators
    /\ conditionBits = {}
    /\ samplers = <<>>
    /\ \E histos \in SinkHistos :
          lastCall = [NoCall EXCEPT !.info =
                         [op |-> make_h1d_sink(Pipe("ds", 0), histos),
                          nans |-> [idx \in 1..Len(histos) |-> 0]]]
    /\ matchCount = [ei \in EventIndexes |-> <<>>]
    /\ history = NoOperators
    /\ passCount = 0
    /\ worker = NoWorker

\* one step of the sink on the input vector in; passCount counts the steps,
\* nans the NaN elements each histogram was filled with
H1DSinkStep(in) ==
    /\ passCount < MaxFills
    /\ lastCall' = [fn |-> "h1d_sink_step", ei |-> 0,
                    info |-> [op |-> h1d_sink_step(lastCall.info.op, in),
                              nans |-> [idx \in 1..Len(in) |->
                                           lastCall.info.nans[idx]
                                           + (IF in[idx].valid THEN 0 ELSE 1)]]]
    /\ passCount' = passCount + 1
    /\ UNCHANGED <<worker, dataSources, operators, operatorRanks, conditionBits, samplers,
                   matchCount, history>>

NextH1DSink ==
    \E in \in SinkInputs(lastCall.info.op.d.histos, Len(lastCall.info.op.d.histos)) :
       H1DSinkStep(in)

SpecH1DSink == InitH1DSink /\ [][NextH1DSink]_vars

RECURSIVE SumOfBins(_, _)
SumOfBins(data, i) == IF i > Len(data) THEN 0 ELSE data[i] + SumOfBins(data, i + 1)

\* C25: from a histogram with all bins and counters zero, after any sequence
\* of fill_h1d calls entryCount equals the sum of the bins, underflow +
\* overflow + entryCount + (NaN fills) equals the number of fills, the bin
\* array keeps its size and no index outside [0, size) is written
Cex_C25 ==
    \A idx \in 1..Len(lastCall.info.op.d.histos) :
        LET histo == lastCall.info.op.d.histos[idx]
        IN /\ histo.entryCount = SumOfBins(histo.data, 1)
           /\ histo.underflow + histo.overflow + histo.entryCount
                 + lastCall.info.nans[idx] = passCount
           /\ Len(histo.data) = histo.size
           /\ histo.beyond = <<>>

----------------------------------------------------------------------------
(* MVLC_StreamWorker: the worker thread runs start(), the controlling
   threads call stop(), pause(), resume() and singleStep(), the readout
   fills the queue of filled buffers.  The sections under m_stateMutex are
   the atomic steps. *)

\* control calls per behaviour
MaxControlCalls == 3
\* buffers the readout enqueues per behaviour
MaxBuffers == 2
\* seconds one call of generateElapsedSeconds reports at most
MaxElapsed == 2
\* seconds the TimetickGenerator reports per behaviour
MaxSeconds == 3

a2vars == <<dataSources, operators, operatorRanks, conditionBits, samplers,
            lastCall, matchCount, history, passCount>>

\* MVMEStreamWorkerState
WorkerState_Idle == "Idle"
WorkerState_Running == "Running"
WorkerState_Paused == "Paused"
WorkerState_SingleStepping == "SingleStepping"

\* MVLC_StreamWorker::StopFlag
StopWhenQueueEmpty == "StopWhenQueueEmpty"
StopImmediately == "StopImmediately"

\* the sections of a readout buffer the parser reports through a callback:
\* a readout event, a system event of subtype UnixTimetick, a system event
\* of another subtype
Section_Event == "event"
Section_UnixTimetick == "UnixTimetick"
Section_OtherSystemEvent == "system"

\* no buffer held by the worker
NoBuffer == [id |-> 0, sections |-> <<>>]

\* the members set by the constructor, the queues empty, the thread not in
\* start() yet (pc = "idle"); the counters observe what has happened:
\*   taken            ids of the buffers dequeued from the filled queue
\*   stopCalled       stop() was called on a worker not Idle
\*   stoppedEmitted   stopped() signals emitted
\*   stepCalls        singleStep() calls made while the worker was blocked
\*   passed           events a blocked worker was woken for as single steps
\*   stepResults      singleStepResultReady() signals emitted
\*   eventState       m_state at the beginEvent of the event being processed
\*   elapsedTotal     seconds reported by the TimetickGenerator
\*   generatorTicks   analysis->processTimetick() calls of the loop in start()
\*   systemTicks      analysis->processTimetick() calls of the systemEvent callback
\*   timetickEvents   system events of subtype UnixTimetick the parser reported
MakeWorker(isReplay, startPaused) ==
    [m_state |-> WorkerState_Idle,
     m_desiredState |-> WorkerState_Idle,
     m_startPaused |-> startPaused,
     m_stopFlag |-> StopWhenQueueEmpty,
     isReplay |-> isReplay,
     pc |-> "idle",
     desiredState |-> WorkerState_Idle,
     buffer |-> NoBuffer,
     filled |-> <<>>,
     empty |-> <<>>,
     elapsedSeconds |-> 0,
     produced |-> 0,
     calls |-> 0,
     taken |-> <<>>,
     stopCalled |-> FALSE,
     stoppedEmitted |-> 0,
     stepCalls |-> 0,
     passed |-> 0,
     stepResults |-> 0,
     eventState |-> WorkerState_Idle,
     elapsedTotal |-> 0,
     generatorTicks |-> 0,
     systemTicks |-> 0,
     timetickEvents |-> 0]

\* setState(newState): m_state and m_desiredState are both set, and stopped()
\* is emitted for Idle
setState(w, newState) ==
    [w EXCEPT !.m_state = newState,
              !.m_desiredState = newState,
              !.stoppedEmitted = IF newState = WorkerState_Idle THEN @ + 1 ELSE @]

\* start() up to the loop
WorkerStart ==
    /\ worker.pc = "idle"
    /\ worker.m_state = WorkerState_Idle
    /\ LET running == setState(worker, WorkerState_Running)
           paused == IF worker.m_startPaused
                     THEN setState(running, WorkerState_Paused) ELSE running
       IN worker' = [paused EXCEPT !.pc = "loop"]
    /\ UNCHANGED a2vars

\* the head of the loop: m_desiredState is copied under the mutex
WorkerLoop ==
    /\ worker.pc = "loop"
    /\ worker' = [worker EXCEPT
          !.desiredState = worker.m_desiredState,
          !.pc = IF worker.m_desiredState \in {WorkerState_Running, WorkerState_Paused,
                                               WorkerState_SingleStepping}
                 THEN "running" ELSE "stopping"]
    /\ UNCHANGED a2vars

\* after the branch: the timetick generator is asked unless this is a replay
after_branch(w) ==
    IF w.isReplay THEN [w EXCEPT !.pc = "loop"] ELSE [w EXCEPT !.pc = "elapsed"]

\* the running branch: filled.dequeue(100ms); the sentinel ends the loop
WorkerDequeue ==
    /\ worker.pc = "running"
    /\ worker' =
          IF worker.filled = <<>>
          THEN after_branch(worker)
          ELSE LET buffer == Head(worker.filled)
                   took == [worker EXCEPT !.filled = Tail(@),
                                          !.taken = Append(@, buffer.id)]
               IN IF buffer.sections = <<>>
                  THEN [took EXCEPT !.pc = "leave"]
                  ELSE [took EXCEPT !.buffer = buffer, !.pc = "parse"]
    /\ UNCHANGED a2vars

\* the stopping branch
WorkerStopping ==
    /\ worker.pc = "stopping"
    /\ worker' =
          IF worker.m_stopFlag = StopImmediately
          THEN [worker EXCEPT !.pc = "leave"]
          ELSE IF worker.filled = <<>>
          THEN [worker EXCEPT !.pc = "leave"]
          ELSE [worker EXCEPT !.filled = Tail(@),
                              !.taken = Append(@, Head(worker.filled).id),
                              !.buffer = Head(worker.filled),
                              !.pc = "parse"]
    /\ UNCHANGED a2vars

\* the predicate blockIfPaused waits for
block_predicate(w) ==
    w.m_desiredState \in {WorkerState_Running, WorkerState_Idle, WorkerState_SingleStepping}

\* blockIfPaused after the wait, the request of a single step left standing
after_wait_keeps_request(w) ==
    IF w.m_desiredState = WorkerState_SingleStepping
    THEN [w EXCEPT !.m_state = WorkerState_SingleStepping]
    ELSE w

\* blockIfPaused after the wait: a single step is taken up
after_wait(w) ==
    IF w.m_desiredState = WorkerState_SingleStepping
    THEN [w EXCEPT !.m_state = WorkerState_SingleStepping,
                   !.m_desiredState = WorkerState_Paused]
    ELSE w

\* the beginEvent callback after blockIfPaused has returned
begin_event_callback(w) == [w EXCEPT !.pc = "event", !.eventState = w.m_state]

\* blockIfPaused from its start: the transition into Paused or Running, and
\* the wait, which returns at once if the predicate holds
blockIfPaused(w) ==
    LET moved == IF w.m_desiredState = WorkerState_Paused /\ w.m_state # WorkerState_Paused
                 THEN [w EXCEPT !.m_state = WorkerState_Paused]
                 ELSE IF w.m_desiredState = WorkerState_Running
                         /\ w.m_state # WorkerState_Running
                 THEN [w EXCEPT !.m_state = WorkerState_Running]
                 ELSE w
    IN IF block_predicate(moved)
       THEN begin_event_callback(after_wait(moved))
       ELSE [moved EXCEPT !.pc = "blocked"]

\* the systemEvent callback without the test of runInfo.isReplay
system_event_callback_any_run(w, section) ==
    IF section = Section_UnixTimetick
    THEN [w EXCEPT !.systemTicks = @ + 1]
    ELSE w

\* the systemEvent callback
system_event_callback(w, section) ==
    IF w.isReplay /\ section = Section_UnixTimetick
    THEN [w EXCEPT !.systemTicks = @ + 1]
    ELSE w

\* processBuffer: the parser reports the next section of the buffer, or the
\* buffer is done and put on the queue of empty buffers
WorkerParse ==
    /\ worker.pc = "parse"
    /\ worker' =
          IF worker.buffer.sections = <<>>
          THEN after_branch([worker EXCEPT !.empty = Append(@, worker.buffer.id),
                                           !.buffer = NoBuffer])
          ELSE IF Head(worker.buffer.sections) = Section_Event
          THEN blockIfPaused(worker)
          ELSE [system_event_callback(worker, Head(worker.buffer.sections))
                   EXCEPT !.buffer.sections = Tail(@),
                          !.timetickEvents =
                              IF Head(worker.buffer.sections) = Section_UnixTimetick
                              THEN @ + 1 ELSE @]
    /\ UNCHANGED a2vars

\* the wait of blockIfPaused ends
WorkerWake ==
    /\ worker.pc = "blocked"
    /\ block_predicate(worker)
    /\ worker' = [begin_event_callback(after_wait(worker)) EXCEPT
                     !.passed = IF worker.m_desiredState = WorkerState_SingleStepping
                                THEN @ + 1 ELSE @]
    /\ UNCHANGED a2vars

\* publishStateIfSingleStepping
publishStateIfSingleStepping(w) ==
    IF w.m_state = WorkerState_SingleStepping
    THEN [w EXCEPT !.stepResults = @ + 1] ELSE w

\* the endEvent callback
WorkerEndEvent ==
    /\ worker.pc = "event"
    /\ worker' = [publishStateIfSingleStepping(worker) EXCEPT
                     !.buffer.sections = Tail(@), !.pc = "parse"]
    /\ UNCHANGED a2vars

\* processBuffer throws: the catch block of start() puts the buffer on the
\* queue of empty buffers and throws again
WorkerThrow ==
    /\ worker.pc = "parse"
    /\ worker' = [worker EXCEPT !.empty = Append(@, worker.buffer.id),
                                !.buffer = NoBuffer,
                                !.pc = "thrown"]
    /\ UNCHANGED a2vars

\* timetickGen.generateElapsedSeconds()
WorkerElapsed(seconds) ==
    /\ worker.pc = "elapsed"
    /\ worker' = [worker EXCEPT !.elapsedSeconds = seconds,
                                !.elapsedTotal = @ + seconds,
                                !.pc = "ticks"]
    /\ UNCHANGED a2vars

\* while (elapsedSeconds >= 1) { analysis->processTimetick(); ... }
WorkerTick ==
    /\ worker.pc = "ticks"
    /\ worker' = IF worker.elapsedSeconds >= 1
                 THEN [worker EXCEPT !.generatorTicks = @ + 1,
                                     !.elapsedSeconds = @ - 1]
                 ELSE [worker EXCEPT !.pc = "loop"]
    /\ UNCHANGED a2vars

\* start() after the loop: endRun and setState(Idle)
WorkerLeave ==
    /\ worker.pc = "leave"
    /\ worker' = [setState(worker, WorkerState_Idle) EXCEPT !.pc = "finished"]
    /\ UNCHANGED a2vars

\* a step of the worker thread without exceptions
WorkerStep ==
    \/ WorkerStart
    \/ WorkerLoop
    \/ WorkerDequeue
    \/ WorkerStopping
    \/ WorkerParse
    \/ WorkerWake
    \/ WorkerEndEvent
    \/ \E seconds \in 0..Min2(MaxElapsed, MaxSeconds - worker.elapsedTotal) :
          WorkerElapsed(seconds)
    \/ WorkerTick
    \/ WorkerLeave

\* the worker is in start() and its state is not Idle
InRun(w) == w.pc \notin {"idle", "finished", "thrown"}

\* the worker waits in blockIfPaused in state Paused
BlockedInPaused(w) == w.pc = "blocked" /\ w.m_state = WorkerState_Paused

\* stop(whenQueueEmpty)
Stop(whenQueueEmpty) ==
    /\ worker.calls < MaxControlCalls
    /\ worker' = [worker EXCEPT
          !.m_stopFlag = IF whenQueueEmpty THEN StopWhenQueueEmpty ELSE StopImmediately,
          !.m_desiredState = WorkerState_Idle,
          !.stopCalled = @ \/ InRun(worker),
          !.calls = @ + 1]
    /\ UNCHANGED a2vars

\* pause()
Pause ==
    /\ worker.calls < MaxControlCalls
    /\ worker' = [worker EXCEPT !.m_desiredState = WorkerState_Paused,
                                !.calls = @ + 1]
    /\ UNCHANGED a2vars

\* resume()
Resume ==
    /\ worker.calls < MaxControlCalls
    /\ worker' = [worker EXCEPT !.m_desiredState = WorkerState_Running,
                                !.m_startPaused = FALSE,
                                !.calls = @ + 1]
    /\ UNCHANGED a2vars

\* singleStep()
SingleStep ==
    /\ worker.calls < MaxControlCalls
    /\ worker' = [worker EXCEPT
          !.m_desiredState = WorkerState_SingleStepping,
          !.stepCalls = IF BlockedInPaused(worker) THEN @ + 1 ELSE @,
          !.calls = @ + 1]
    /\ UNCHANGED a2vars

\* the readout puts a buffer of the given sections on the filled queue; the
\* buffer without sections is the sentinel
Produce(sections) ==
    /\ worker.produced < MaxBuffers
    /\ worker' = [worker EXCEPT
          !.filled = Append(@, [id |-> worker.produced + 1, sections |-> sections]),
          !.produced = @ + 1]
    /\ UNCHANGED a2vars

InitWorker(replays, startsPaused) ==
    /\ dataSources = NoSources
    /\ operators = NoOperators
    /\ operatorRanks = NoOperators
    /\ conditionBits = {}
    /\ samplers = <<>>
    /\ lastCall = NoCall
    /\ matchCount = NoSources
    /\ history = NoOperators
    /\ passCount = 0
    /\ \E isReplay \in replays, startPaused \in startsPaused :
          worker = MakeWorker(isReplay, startPaused)

\* ---------------------------------------------------------------------
\* SpecStopFair: the worker thread, scheduled fairly, with the readout and
\* the control calls of other threads in any order
\* ---------------------------------------------------------------------

StopSections == {<<>>, <<Section_Event>>}

InitStop == InitWorker(BOOLEAN, BOOLEAN)

NextStop ==
    \/ WorkerStep
    \/ \E whenQueueEmpty \in BOOLEAN : Stop(whenQueueEmpty)
    \/ Pause
    \/ Resume
    \/ SingleStep
    \/ \E sections \in StopSections : Produce(sections)

\* the thread running start() is scheduled when it can take a step; nothing
\* is assumed of the readout or of the controlling threads
SpecStopFair == InitStop /\ [][NextStop]_vars /\ WF_vars(WorkerStep)

\* C26: stop is final: once stop() has been called on a worker that is
\* Running, Paused or SingleStepping, the worker thread eventually leaves
\* its loop, sets its state to Idle and emits stopped(), whatever pause(),
\* resume() and singleStep() calls follow
Cex_C26 ==
    worker.stopCalled ~>
        (worker.pc = "finished" /\ worker.m_state = WorkerState_Idle
         /\ worker.stoppedEmitted > 0)

\* ---------------------------------------------------------------------
\* SpecWorker: the worker thread with the readout and the control calls in
\* any order, buffers of every kind, and processBuffer throwing
\* ---------------------------------------------------------------------

WorkerSections ==
    {<<>>, <<Section_Event>>, <<Section_Event, Section_Event>>,
     <<Section_UnixTimetick>>, <<Section_OtherSystemEvent>>}

NextWorker ==
    \/ WorkerStep
    \/ WorkerThrow
    \/ \E whenQueueEmpty \in BOOLEAN : Stop(whenQueueEmpty)
    \/ Pause
    \/ Resume
    \/ SingleStep
    \/ \E sections \in WorkerSections : Produce(sections)

SpecWorker == InitStop /\ [][NextWorker]_vars

\* the worker thread calls the beginEvent callback in this step
AtBeginEvent ==
    /\ worker.pc = "parse"
    /\ worker.buffer.sections # <<>>
    /\ Head(worker.buffer.sections) = Section_Event
    /\ worker'.pc \in {"blocked", "event"}

\* the single stepping of the worker but for the number of events per call:
\* a worker woken by singleStep() processes the event in state
\* SingleStepping with its request taken back, singleStepResultReady is
\* emitted at the endEvent of an event begun in that state, at the next
\* beginEvent the worker is Paused again and blocks unless a control call
\* came in between, and a blocked worker goes on only after singleStep(),
\* resume() or stop()
StepRules ==
    /\ (BlockedInPaused(worker) /\ worker'.pc = "event"
        /\ worker.m_desiredState = WorkerState_SingleStepping)
          => /\ worker'.m_state = WorkerState_SingleStepping
             /\ worker'.eventState = WorkerState_SingleStepping
             /\ worker'.m_desiredState = WorkerState_Paused
             /\ worker'.buffer = worker.buffer
    /\ (worker.pc = "event" /\ worker'.pc = "parse")
          => /\ worker.m_state = worker.eventState
             /\ worker'.stepResults = worker.stepResults
                   + (IF worker.eventState = WorkerState_SingleStepping THEN 1 ELSE 0)
             /\ Len(worker'.buffer.sections) = Len(worker.buffer.sections) - 1
    /\ (AtBeginEvent /\ worker.m_state = WorkerState_SingleStepping
        /\ worker.m_desiredState = WorkerState_Paused)
          => /\ worker'.m_state = WorkerState_Paused
             /\ worker'.pc = "blocked"
    /\ (worker.pc = "blocked" /\ worker'.pc # "blocked")
          => worker.m_desiredState \in {WorkerState_SingleStepping, WorkerState_Running,
                                        WorkerState_Idle}
    /\ worker.pc = "blocked" => worker.m_state = WorkerState_Paused

\* C27: while the worker is blocked in Paused, each singleStep() call lets
\* exactly one event pass blockIfPaused; the event is processed in state
\* SingleStepping and singleStepResultReady is emitted at its endEvent; at
\* the next beginEvent the worker is Paused again and blocks until another
\* singleStep(), resume() or stop()
Cex_C27 ==
    [][/\ StepRules
       /\ worker'.pc # "blocked" => worker'.passed = worker'.stepCalls]_vars

\* C27 as the worker has it: the singleStep() calls made while the worker is
\* blocked in Paused let at most one event pass each (calls made before the
\* worker wakes up count as one, and a pause() or stop() that follows takes
\* the step back); the rest as stated
Thm_C27 ==
    [][/\ StepRules
       /\ worker'.passed <= worker'.stepCalls
       /\ worker'.passed \in {worker.passed, worker.passed + 1}]_vars

\* after a single step the worker is blocked in Paused again, having been
\* woken for two events by two singleStep() calls
Wit_C27 ==
    /\ BlockedInPaused(worker)
    /\ worker.passed = 2
    /\ worker.stepCalls = 2
    /\ worker.stepResults = 2

\* the worker thread holds the buffer it dequeued: it is inside processBuffer
HoldsBuffer(w) == w.pc \in {"parse", "blocked", "event"}

\* how often the buffer id has been put on the queue of empty buffers
TimesEnqueued(w, id) == Cardinality({j \in 1..Len(w.empty) : w.empty[j] = id})

\* C28: every buffer the worker dequeues from the filled queue during
\* start() is put on the queue of empty buffers exactly once before the
\* worker dequeues again or leaves the loop, whether processBuffer returns
\* or throws, and for every kind of buffer
Cex_C28 ==
    /\ Len(worker.taken) = Len(worker.empty) + (IF HoldsBuffer(worker) THEN 1 ELSE 0)
    /\ \A i \in 1..Len(worker.taken) :
          TimesEnqueued(worker, worker.taken[i])
             = (IF HoldsBuffer(worker) /\ i = Len(worker.taken) THEN 0 ELSE 1)

\* C29: within one run analysis->processTimetick() is called only for the
\* UnixTimetick system events when runInfo.isReplay is true, and only by
\* the TimetickGenerator loop, once per elapsed second, when it is false;
\* no run has time ticks of both sources
Thm_C29 ==
    /\ worker.isReplay =>
          /\ worker.generatorTicks = 0
          /\ worker.systemTicks = worker.timetickEvents
    /\ ~worker.isReplay =>
          /\ worker.systemTicks = 0
          /\ worker.generatorTicks + worker.elapsedSeconds = worker.elapsedTotal
          /\ worker.pc \notin {"elapsed", "ticks"} => worker.elapsedSeconds = 0
    /\ worker.systemTicks = 0 \/ worker.generatorTicks = 0

\* a replay that has had one time tick from its one UnixTimetick system
\* event, another system event having passed without
Wit_C29 ==
    /\ worker.isReplay
    /\ worker.systemTicks = 1
    /\ worker.timetickEvents = 1
    /\ Len(worker.empty) = 2
    /\ worker.pc = "finished"

\* ---------------------------------------------------------------------
\* MVMEStreamWorker (mvme_stream_worker.cc): the worker loop of start()
\* and the control calls of the controlling thread.  The two threads
\* share the atomic m_d->internalState; every load or store of it is one
\* step, and the loop's local copy is the field internalState.
\* ---------------------------------------------------------------------

\* enum InternalState
InternalState_KeepRunning == "KeepRunning"
InternalState_StopIfQueueEmpty == "StopIfQueueEmpty"
InternalState_StopImmediately == "StopImmediately"
InternalState_Pause == "Pause"
InternalState_SingleStep == "SingleStep"

\* enum class MVMEStreamWorkerState
MVMEStreamWorkerState_Idle == "Idle"
MVMEStreamWorkerState_Paused == "Paused"
MVMEStreamWorkerState_Running == "Running"
MVMEStreamWorkerState_SingleStepping == "SingleStepping"

\* the worker after its constructor: internalState KeepRunning, state
\* Idle.  fullBuffers counts the queued buffers; processed, ticks,
\* calls, stopCalls and invalidCodePath observe the run.
MakeMVMEStreamWorker(isReplay) ==
    [m_state |-> "mvme",
     m_d_internalState |-> InternalState_KeepRunning,
     state |-> MVMEStreamWorkerState_Idle,
     isReplay |-> isReplay,
     pc |-> "idle",
     internalState |-> InternalState_KeepRunning,
     fullBuffers |-> 0,
     produced |-> 0,
     processed |-> 0,
     ticks |-> 0,
     calls |-> 0,
     stopCalls |-> 0,
     invalidCodePath |-> "none"]

\* start() up to the loop: setState(Running), the store of KeepRunning
\* into the atomic and the load of the local copy
MVME_start ==
    /\ worker.pc = "idle"
    /\ worker.state = MVMEStreamWorkerState_Idle
    /\ worker' = [worker EXCEPT
          !.state = MVMEStreamWorkerState_Running,
          !.m_d_internalState = InternalState_KeepRunning,
          !.internalState = InternalState_KeepRunning,
          !.pc = "loop"]
    /\ UNCHANGED a2vars

\* processNextBuffer(): on an empty queue a pending StopIfQueueEmpty
\* becomes StopImmediately, otherwise the wait times out; a queued buffer
\* is dequeued and processed
processNextBuffer(w) ==
    IF w.fullBuffers = 0
    THEN IF w.m_d_internalState = InternalState_StopIfQueueEmpty
         THEN [w EXCEPT !.m_d_internalState = InternalState_StopImmediately]
         ELSE w
    ELSE [w EXCEPT !.fullBuffers = @ - 1, !.processed = @ + 1]

\* the branch of the loop body taken while state is Running
running_branch(w) ==
    CASE w.internalState \in {InternalState_KeepRunning, InternalState_StopIfQueueEmpty} ->
            [processNextBuffer(w) EXCEPT !.pc = "ticks"]
      [] w.internalState = InternalState_Pause ->
            [w EXCEPT !.state = MVMEStreamWorkerState_Paused, !.pc = "ticks"]
      [] w.internalState = InternalState_StopImmediately ->
            [w EXCEPT !.pc = "ticks"]
      [] w.internalState = InternalState_SingleStep ->
            [w EXCEPT !.invalidCodePath = "Running", !.pc = "invalid"]

\* the branch of the loop body taken while state is Paused; the
\* SingleStep case stops at setState(SingleStepping)
paused_branch(w) ==
    CASE w.internalState \in {InternalState_KeepRunning, InternalState_StopIfQueueEmpty, InternalState_StopImmediately} ->
            [w EXCEPT !.state = MVMEStreamWorkerState_Running, !.pc = "ticks"]
      [] w.internalState = InternalState_Pause ->
            [w EXCEPT !.pc = "ticks"]
      [] w.internalState = InternalState_SingleStep ->
            [w EXCEPT !.state = MVMEStreamWorkerState_SingleStepping, !.pc = "stepping"]

\* one pass through the if / else if / else of the loop body
loop_body(w) ==
    CASE w.state = MVMEStreamWorkerState_Running -> running_branch(w)
      [] w.state = MVMEStreamWorkerState_Paused -> paused_branch(w)
      [] OTHER -> [w EXCEPT !.invalidCodePath = "else", !.pc = "invalid"]

\* while (internalState != StopImmediately) { if ... else ... }
MVME_loop ==
    /\ worker.pc = "loop"
    /\ worker.internalState # InternalState_StopImmediately
    /\ worker' = loop_body(worker)
    /\ UNCHANGED a2vars

\* the rest of the SingleStep case: setState(Paused) and the store of
\* Pause into the atomic
MVME_stepped ==
    /\ worker.pc = "stepping"
    /\ worker' = [worker EXCEPT
          !.state = MVMEStreamWorkerState_Paused,
          !.m_d_internalState = InternalState_Pause,
          !.pc = "ticks"]
    /\ UNCHANGED a2vars

\* InvalidCodePath: the macro is not part of the sources at hand; an
\* asserting build ends the run there, another one goes on
MVME_invalid ==
    /\ worker.pc = "invalid"
    /\ \E aborts \in BOOLEAN :
          worker' = [worker EXCEPT !.pc = IF aborts THEN "aborted" ELSE "ticks"]
    /\ UNCHANGED a2vars

\* the end of the loop body: the external timeticks of a live run, then
\* the reload of the atomic into the local copy
MVME_reload(seconds) ==
    /\ worker.pc = "ticks"
    /\ worker' = [worker EXCEPT
          !.ticks = IF ~worker.isReplay THEN @ + seconds ELSE @,
          !.internalState = worker.m_d_internalState,
          !.pc = "loop"]
    /\ UNCHANGED a2vars

\* after the loop: endRun and setState(Idle)
MVME_finish ==
    /\ worker.pc = "loop"
    /\ worker.internalState = InternalState_StopImmediately
    /\ worker' = [worker EXCEPT !.state = MVMEStreamWorkerState_Idle,
                                !.pc = "finished"]
    /\ UNCHANGED a2vars

\* stop(whenQueueEmpty)
MVME_stop(whenQueueEmpty) ==
    /\ worker.calls < MaxControlCalls
    /\ worker' = [worker EXCEPT
          !.m_d_internalState = IF whenQueueEmpty THEN InternalState_StopIfQueueEmpty ELSE InternalState_StopImmediately,
          !.stopCalls = @ + 1,
          !.calls = @ + 1]
    /\ UNCHANGED a2vars

\* pause(): Q_ASSERT(internalState != Pause)
MVME_pause ==
    /\ worker.calls < MaxControlCalls
    /\ worker.m_d_internalState # InternalState_Pause
    /\ worker' = [worker EXCEPT !.m_d_internalState = InternalState_Pause,
                                !.calls = @ + 1]
    /\ UNCHANGED a2vars

\* resume(): Q_ASSERT(internalState == Pause)
MVME_resume ==
    /\ worker.calls < MaxControlCalls
    /\ worker.m_d_internalState = InternalState_Pause
    /\ worker' = [worker EXCEPT !.m_d_internalState = InternalState_KeepRunning,
                                !.calls = @ + 1]
    /\ UNCHANGED a2vars

\* singleStep(): Q_ASSERT(internalState == Pause)
MVME_singleStep ==
    /\ worker.calls < MaxControlCalls
    /\ worker.m_d_internalState = InternalState_Pause
    /\ worker' = [worker EXCEPT !.m_d_internalState = InternalState_SingleStep,
                                !.calls = @ + 1]
    /\ UNCHANGED a2vars

\* the readout side enqueues a filled buffer
MVME_enqueue ==
    /\ worker.produced < MaxBuffers
    /\ worker' = [worker EXCEPT !.fullBuffers = @ + 1, !.produced = @ + 1]
    /\ UNCHANGED a2vars

InitControl ==
    /\ dataSources = NoSources
    /\ operators = NoOperators
    /\ operatorRanks = NoOperators
    /\ conditionBits = {}
    /\ samplers = <<>>
    /\ lastCall = NoCall
    /\ matchCount = NoSources
    /\ history = NoOperators
    /\ passCount = 0
    /\ \E isReplay \in BOOLEAN : worker = MakeMVMEStreamWorker(isReplay)

NextControl ==
    \/ MVME_start
    \/ MVME_loop
    \/ MVME_stepped
    \/ MVME_invalid
    \/ \E seconds \in 0..Min2(1, MaxSeconds - worker.ticks) : MVME_reload(seconds)
    \/ MVME_finish
    \/ \E whenQueueEmpty \in BOOLEAN : MVME_stop(whenQueueEmpty)
    \/ MVME_pause
    \/ MVME_resume
    \/ MVME_singleStep
    \/ MVME_enqueue

SpecControl == InitControl /\ [][NextControl]_vars

\* C30: while the controlling thread calls only pause(), resume() and
\* singleStep(), each with its Q_ASSERT on internalState holding at the
\* call, the loop of start() never finds its local internalState equal
\* to SingleStep while state is Running, so the InvalidCodePath of that
\* case is never reached.
Cex_C30 == worker.stopCalls = 0 => worker.invalidCodePath # "Running"

====
